---- MODULE Spec2Model ----
(***************************************************************************)
(* Model of SeqNado's normalisation-factor computation:                    *)
(*   - workflow/scripts/calculate_csaw_scaling_factors.py (the CSAW step)  *)
(*   - workflow/helpers/normalization.py (per-sample and merged-group      *)
(*     factor look-ups)                                                    *)
(*                                                                         *)
(* Floating-point values are modelled as exact rationals <<n, d>> in       *)
(* lowest terms with d >= 0, extended with the IEEE special values:        *)
(* <<1, 0>> is +inf, <<-1, 0>> is -inf and <<0, 0>> is NaN.  Rounding of   *)
(* binary64 arithmetic is not modelled.                                    *)
(***************************************************************************)
EXTENDS Integers, Sequences, FiniteSets, TLC

VARIABLES
    counts_file,    \* featureCounts matrix: [columns, data]
    design_file,    \* design table: [columns, rows]
    group,          \* snakemake.wildcards.group
    pc,             \* position of the CSAW script
    exc,            \* the exception in flight in the CSAW script, or NoExc
    env,            \* the script's variables: a function from names to values
    log,            \* the step's log file: sequence of records, or NoFile
    output_file,    \* {group}_scaling_factors.tsv: sequence of rows, or NoFile
    previous,       \* the output file as each earlier run of the step left it
    other,          \* a CSAW step of another group running at the same time
    sample_group,   \* sample_groupings.get_grouping("consensus").get_group(group)
    method,         \* wildcards.spikein_method
    norm_factors,   \* resources/{method}/normalisation_factors.json
    stats_files,    \* aligned/spikein/{sample}_stats.tsv, per sample
    norm_table,     \* resources/with_input/normalisation_factors.tsv
    call,           \* the last call: [fn, args, ret]
    builder,        \* a SnakemakeCommandBuilder: [cmd, targets]
    calls,          \* the methods called on the builder so far, in order
    cache           \* _container_version_cache: container URI -> versions

vars == <<counts_file, design_file, group, pc, exc, env, log, output_file, previous, other,
          sample_group, method, norm_factors, stats_files, norm_table, call,
          builder, calls, cache>>

csaw_vars == <<counts_file, design_file, group, pc, exc, env, log, output_file, previous, other>>
helper_vars == <<sample_group, method, norm_factors, stats_files, norm_table, call>>
tool_vars == <<builder, calls, cache>>

(***************************************************************************)
(* Bounds of the model                                                     *)
(***************************************************************************)
NumBins == 2        \* rows (genomic bins) of the count matrix
MaxCount == 1       \* largest read count of one bin
MaxRows == 2        \* largest number of design rows
MaxRuns == 2        \* largest number of runs of the CSAW step on the same inputs
MaxMergedRows == 3  \* largest number of design rows when the table is looked up

\* a file is [exists |-> FALSE] or [exists |-> TRUE, ...its content...]
NoFile == [exists |-> FALSE]
NoExc == "NoExc"
NoCall == [fn |-> "none"]
NoStep == [pc |-> "idle"]
NoBuilder == [constructed |-> FALSE]

OrlandoScale == 1000000         \* 1e6
WithInputScale == 10000000      \* 1e7

(***************************************************************************)
(* Sequence helpers                                                        *)
(***************************************************************************)
Range(s) == {s[i] : i \in 1..Len(s)}

RECURSIVE SumSeq(_)
SumSeq(s) == IF s = <<>> THEN 0 ELSE Head(s) + SumSeq(Tail(s))

RECURSIVE Flatten(_)
Flatten(ss) == IF ss = <<>> THEN <<>> ELSE Head(ss) \o Flatten(Tail(ss))

(***************************************************************************)
(* float: exact rationals with inf and NaN                                 *)
(***************************************************************************)
Abs(n) == IF n < 0 THEN -n ELSE n
Sign(n) == IF n > 0 THEN 1 ELSE IF n < 0 THEN -1 ELSE 0

RECURSIVE GCD(_, _)
GCD(a, b) == IF b = 0 THEN a ELSE GCD(b, a % b)

FNorm(n, d) ==
    IF d = 0 THEN <<Sign(n), 0>>
    ELSE LET s == Sign(d)
             g == GCD(Abs(n), Abs(d))
         IN  <<(s * n) \div g, (s * d) \div g>>

FInt(n) == <<n, 1>>
FInf == <<1, 0>>
FNaN == <<0, 0>>
FOne == <<1, 1>>

IsNaN(a) == a = FNaN
IsInf(a) == a[2] = 0 /\ a[1] # 0
IsFinite(a) == a[2] > 0

FNeg(a) == <<-a[1], a[2]>>

FAdd(a, b) ==
    IF IsNaN(a) \/ IsNaN(b) THEN FNaN
    ELSE IF IsInf(a) /\ IsInf(b) THEN (IF a = b THEN a ELSE FNaN)
    ELSE FNorm(a[1] * b[2] + b[1] * a[2], a[2] * b[2])

FMul(a, b) == FNorm(a[1] * b[1], a[2] * b[2])

\* IEEE division (numpy): x/0 is +-inf, 0/0 is NaN, x/inf is 0
FDiv(a, b) ==
    IF IsNaN(a) \/ IsNaN(b) THEN FNaN
    ELSE IF b[1] < 0 THEN FNorm(-(a[1] * b[2]), a[2] * (-b[1]))
    ELSE FNorm(a[1] * b[2], a[2] * b[1])

FLess(a, b) ==
    /\ ~IsNaN(a) /\ ~IsNaN(b)
    /\ a # b
    /\ IF IsInf(a) THEN a[1] < 0
       ELSE IF IsInf(b) THEN b[1] > 0
       ELSE a[1] * b[2] < b[1] * a[2]

FPositive(a) == FLess(FInt(0), a)

RECURSIVE FSum(_)
FSum(s) == IF s = <<>> THEN FInt(0) ELSE FAdd(Head(s), FSum(Tail(s)))

(***************************************************************************)
(* File paths and pathlib.Path(col).stem                                   *)
(* A path is [dirs, name]: the directory components and the final          *)
(* component split at its dots.                                            *)
(***************************************************************************)
RECURSIVE JoinWith(_, _)
JoinWith(pieces, sep) ==
    IF pieces = <<>> THEN ""
    ELSE IF Len(pieces) = 1 THEN pieces[1]
    ELSE pieces[1] \o sep \o JoinWith(Tail(pieces), sep)

Front(s) == SubSeq(s, 1, Len(s) - 1)
Last(s) == s[Len(s)]

FileName(path) == JoinWith(path.name, ".")

PathStr(path) == JoinWith(path.dirs \o <<FileName(path)>>, "/")

\* Path.stem: the final component without its last suffix; a name with no
\* dot, a leading dot only, or a trailing dot has no suffix.
Stem(path) ==
    IF /\ Len(path.name) > 1
       /\ JoinWith(Front(path.name), ".") # ""
       /\ Last(path.name) # ""
    THEN JoinWith(Front(path.name), ".")
    ELSE FileName(path)

BamPath(sample) == [dirs |-> <<"aligned">>, name |-> <<sample, "bam">>]
MetaPath(col) == [dirs |-> <<>>, name |-> <<col>>]

(***************************************************************************)
(* Inputs of the CSAW step                                                 *)
(***************************************************************************)
meta_names == <<"Geneid", "Chr", "Start", "End", "Strand", "Length">>
meta_cols == Range(meta_names)

MatrixSamples == <<"a", "a_x", "b">>

MetaCells(bin) == <<bin, "chr1", bin, bin + 1, "+", 1>>

\* A featureCounts matrix: the six metadata columns, then one column per BAM.
Matrices ==
    { [exists |-> TRUE,
       columns |-> [i \in 1..Len(meta_names) |-> MetaPath(meta_names[i])]
                   \o [i \in 1..Len(MatrixSamples) |-> BamPath(MatrixSamples[i])],
       data |-> [b \in 1..NumBins |-> MetaCells(b) \o cells[b]]] :
      cells \in [1..NumBins -> [1..Len(MatrixSamples) -> 0..MaxCount]] }

DesignColumns == {"uid", "sample_id", "ip", "scaling_group", "consensus_group"}

CellValues(col) ==
    CASE col = "uid" -> {"a_x", "b"}
      [] col = "sample_id" -> {"a", "b"}
      [] col = "ip" -> {"x"}
      [] col = "scaling_group" -> {"g", "h"}
      [] col = "consensus_group" -> {"g", "h"}

AllCells == UNION {CellValues(c) : c \in DesignColumns}

DesignRows(cols) == {r \in [cols -> AllCells] : \A c \in cols : r[c] \in CellValues(c)}

Designs ==
    UNION { { [exists |-> TRUE, columns |-> cols, rows |-> rows] :
              rows \in UNION {[1..n -> DesignRows(cols)] : n \in 0..MaxRows} } :
            cols \in SUBSET DesignColumns }

Groups == {"g"}

(***************************************************************************)
(* calculate_csaw_scaling_factors.py                                       *)
(* A pandas Series is a sequence of [index, value] entries.                *)
(***************************************************************************)
Column(counts, j) == [b \in 1..Len(counts.data) |-> counts.data[b][j]]

sample_cols(counts) ==
    SelectSeq([j \in 1..Len(counts.columns) |-> j],
              LAMBDA j : PathStr(counts.columns[j]) \notin meta_cols)

sample_name_map(counts, j) == Stem(counts.columns[j])

lib_sizes(counts) ==
    LET cols == sample_cols(counts)
    IN  [k \in 1..Len(cols) |->
            [index |-> sample_name_map(counts, cols[k]),
             value |-> SumSeq(Column(counts, cols[k]))]]

Index(series) == {series[k].index : k \in 1..Len(series)}

Values(series) == [k \in 1..Len(series) |-> series[k].value]

UidDerivable(design) == "uid" \in design.columns \/ "sample_id" \in design.columns

\* mutant: sample_id is used even when the design has a uid column
Uid_from_sample_id(design) ==
    [i \in 1..Len(design.rows) |->
        IF "sample_id" \in design.columns /\ "ip" \in design.columns
        THEN design.rows[i]["sample_id"] \o "_" \o design.rows[i]["ip"]
        ELSE IF "sample_id" \in design.columns THEN design.rows[i]["sample_id"]
        ELSE design.rows[i]["uid"]]

\* lines 48-52: design["uid"], one entry per design row
Uid(design) ==
    [i \in 1..Len(design.rows) |->
        IF "uid" \in design.columns THEN design.rows[i]["uid"]
        ELSE IF "sample_id" \in design.columns /\ "ip" \in design.columns
             THEN design.rows[i]["sample_id"] \o "_" \o design.rows[i]["ip"]
        ELSE design.rows[i]["sample_id"]]

\* mutant: the mask is ignored, the uids of all design rows are taken
UidsWhere_every_row(design, uid, col, grp) == uid

\* design.loc[design[col] == grp, "uid"].tolist()
UidsWhere(design, uid, col, grp) ==
    LET rows == SelectSeq([i \in 1..Len(design.rows) |-> i],
                          LAMBDA i : design.rows[i][col] = grp)
    IN  [k \in 1..Len(rows) |-> uid[rows[k]]]

\* mask.any() for the column, when the design has it
FoundIn(design, col, grp) ==
    /\ col \in design.columns
    /\ \E i \in 1..Len(design.rows) : design.rows[i][col] = grp

\* mutant: consensus_group is tried before scaling_group
GroupSource_consensus_first(design, grp) ==
    IF FoundIn(design, "consensus_group", grp) THEN "consensus_group"
    ELSE IF FoundIn(design, "scaling_group", grp) THEN "scaling_group"
    ELSE "all"

\* which branch of lines 61-76 supplies the group's samples
GroupSource(design, grp) ==
    IF FoundIn(design, "scaling_group", grp) THEN "scaling_group"
    ELSE IF FoundIn(design, "consensus_group", grp) THEN "consensus_group"
    ELSE "all"

\* mutant: no fall-back to all rows when the name is in neither column
group_samples_no_fallback(design, uid, grp) ==
    LET src == GroupSource(design, grp)
    IN  IF src = "all" THEN <<>> ELSE UidsWhere(design, uid, src, grp)

group_samples(design, uid, grp) ==
    LET src == GroupSource(design, grp)
    IN  IF src = "all" THEN uid ELSE UidsWhere(design, uid, src, grp)

\* mutant: the group's samples are not filtered by the matrix columns
available_samples_unfiltered(grp_samples, sizes) == grp_samples

available_samples(grp_samples, sizes) ==
    LET index == Index(sizes)
    IN  SelectSeq(grp_samples, LAMBDA s : s \in index)

\* mutant: the library sizes of every sample of the matrix
lib_sizes_group_all(sizes, avail) == sizes

\* lib_sizes[available_samples]: the entries of each label, in list order
lib_sizes_group(sizes, avail) ==
    Flatten([k \in 1..Len(avail) |-> SelectSeq(sizes, LAMBDA e : e.index = avail[k])])

mean_lib_size(grp_sizes) == FDiv(FInt(SumSeq(Values(grp_sizes))), FInt(Len(grp_sizes)))

scale_factors(grp_sizes) ==
    LET mean == mean_lib_size(grp_sizes)
    IN  [k \in 1..Len(grp_sizes) |->
            [index |-> grp_sizes[k].index,
             value |-> FDiv(mean, FInt(grp_sizes[k].value))]]

\* the DataFrame written to the output TSV
result(sf) == [k \in 1..Len(sf) |-> [sample |-> sf[k].index, scale_factor |-> sf[k].value]]

\* the variables the try body has bound when it reaches line 98 or raises
Namespace(counts, design, grp) ==
    IF ~counts.exists THEN <<>>
    ELSE LET sizes == lib_sizes(counts)
         IN  ("lib_sizes" :> sizes) @@
             (IF ~design.exists \/ ~UidDerivable(design) THEN <<>>
              ELSE LET uid == Uid(design)
                       grp_samples == group_samples(design, uid, grp)
                       avail == available_samples(grp_samples, sizes)
                       grp_sizes == lib_sizes_group(sizes, avail)
                   IN  ("uid" :> uid) @@
                       ("group_samples" :> grp_samples) @@
                       ("available_samples" :> avail) @@
                       (IF avail = <<>> THEN <<>>
                        ELSE ("lib_sizes_group" :> grp_sizes) @@
                             ("mean_lib_size" :> mean_lib_size(grp_sizes)) @@
                             ("scale_factors" :> scale_factors(grp_sizes))))

\* the exception the try body raises before the output is written, or NoExc
TryError(counts, design, ns) ==
    IF ~counts.exists \/ ~design.exists THEN "FileNotFoundError"
    ELSE IF ~UidDerivable(design) THEN "ValueError: cannot determine sample names"
    ELSE IF ns["available_samples"] = <<>>
         THEN "ValueError: no samples from group found in counts"
    ELSE NoExc

\* the records the try body writes to the log before line 100
TryLog(counts, design, grp, ns) ==
    <<"calculating">>
    \o (IF ~counts.exists THEN <<>>
        ELSE <<"library sizes">>
        \o (IF ~design.exists \/ ~UidDerivable(design) THEN <<>>
            ELSE <<"group source: " \o GroupSource(design, grp), "samples in group">>
            \o (IF ns["available_samples"] = <<>> THEN <<>>
                ELSE <<"library sizes for group", "scale factors">>)))

\* no builder has been constructed and the version cache is empty
ToolIdle ==
    /\ builder = NoBuilder
    /\ calls = <<>>
    /\ cache = <<>>

CsawInit(matrices, designs) ==
    /\ counts_file \in matrices
    /\ design_file \in designs
    /\ group \in Groups
    /\ pc = "start"
    /\ exc = NoExc
    /\ env = <<>>
    /\ log = NoFile
    /\ output_file = NoFile
    /\ previous = <<>>
    /\ other = NoStep
    /\ ToolIdle

\* line 14: the log file is opened for writing
OpenLog ==
    /\ pc = "start"
    /\ log' = [exists |-> TRUE, lines |-> <<>>]
    /\ pc' = "try"
    /\ UNCHANGED <<counts_file, design_file, group, exc, env, output_file, previous, other, helper_vars, tool_vars>>

\* lines 19-98: read the inputs and compute the scale factors
Compute ==
    /\ pc = "try"
    /\ env' = Namespace(counts_file, design_file, group)
    /\ log' = [log EXCEPT !.lines = @ \o TryLog(counts_file, design_file, group, env')]
    /\ exc' = TryError(counts_file, design_file, env')
    /\ pc' = IF exc' = NoExc THEN "write" ELSE "except"
    /\ UNCHANGED <<counts_file, design_file, group, output_file, previous, other, helper_vars, tool_vars>>

\* mutant: the table is appended to the file that is already there
WriteOutput_append ==
    /\ pc = "write"
    /\ output_file' = [exists |-> TRUE,
                       rows |-> (IF output_file.exists THEN output_file.rows ELSE <<>>)
                                \o result(env.scale_factors)]
    /\ log' = [log EXCEPT !.lines = Append(@, "written")]
    /\ pc' = "done"
    /\ UNCHANGED <<counts_file, design_file, group, exc, env, previous, other, helper_vars, tool_vars>>

\* lines 100-106: write the output TSV
WriteOutput ==
    /\ pc = "write"
    /\ output_file' = [exists |-> TRUE, rows |-> result(env.scale_factors)]
    /\ log' = [log EXCEPT !.lines = Append(@, "written")]
    /\ pc' = "done"
    /\ UNCHANGED <<counts_file, design_file, group, exc, env, previous, other, helper_vars, tool_vars>>

\* mutant: the error is re-raised without being logged
Except_not_logged ==
    /\ pc = "except"
    /\ pc' = "raised"
    /\ UNCHANGED <<counts_file, design_file, group, exc, env, log, output_file, previous, other, helper_vars, tool_vars>>

\* lines 108-110: log the error and re-raise
Except ==
    /\ pc = "except"
    /\ log' = [log EXCEPT !.lines = Append(@, "ERROR: " \o exc)]
    /\ pc' = "raised"
    /\ UNCHANGED <<counts_file, design_file, group, exc, env, output_file, previous, other, helper_vars, tool_vars>>

CsawNext == OpenLog \/ Compute \/ WriteOutput \/ Except

\* The same script run at the same time for another group: it has its own
\* position, variables, log file and output file, held in the record other.
OtherOpenLog ==
    /\ other.pc = "start"
    /\ other' = [other EXCEPT !.log = [exists |-> TRUE, lines |-> <<>>], !.pc = "try"]
    /\ UNCHANGED <<counts_file, design_file, group, pc, exc, env, log, output_file,
                   previous, helper_vars, tool_vars>>

OtherCompute ==
    /\ other.pc = "try"
    /\ LET ns == Namespace(counts_file, design_file, other.group)
           e == TryError(counts_file, design_file, ns)
       IN  other' = [other EXCEPT
                        !.env = ns,
                        !.log.lines = @ \o TryLog(counts_file, design_file, other.group, ns),
                        !.exc = e,
                        !.pc = IF e = NoExc THEN "write" ELSE "except"]
    /\ UNCHANGED <<counts_file, design_file, group, pc, exc, env, log, output_file,
                   previous, helper_vars, tool_vars>>

\* mutant: the table is written to one file name shared by all groups
OtherWriteOutput_shared_file ==
    /\ other.pc = "write"
    /\ output_file' = [exists |-> TRUE, rows |-> result(other.env.scale_factors)]
    /\ other' = [other EXCEPT !.log.lines = Append(@, "written"), !.pc = "done"]
    /\ UNCHANGED <<counts_file, design_file, group, pc, exc, env, log, previous, helper_vars, tool_vars>>

OtherWriteOutput ==
    /\ other.pc = "write"
    /\ other' = [other EXCEPT
                    !.output_file = [exists |-> TRUE, rows |-> result(other.env.scale_factors)],
                    !.log.lines = Append(@, "written"),
                    !.pc = "done"]
    /\ UNCHANGED <<counts_file, design_file, group, pc, exc, env, log, output_file,
                   previous, helper_vars, tool_vars>>

OtherExcept ==
    /\ other.pc = "except"
    /\ other' = [other EXCEPT !.log.lines = Append(@, "ERROR: " \o other.exc), !.pc = "raised"]
    /\ UNCHANGED <<counts_file, design_file, group, pc, exc, env, log, output_file,
                   previous, helper_vars, tool_vars>>

OtherNext == OtherOpenLog \/ OtherCompute \/ OtherWriteOutput \/ OtherExcept

\* the step is run again, as a new process, on the files the last run left
Rerun ==
    /\ pc \in {"done", "raised"}
    /\ Len(previous) + 1 < MaxRuns
    /\ previous' = Append(previous, output_file)
    /\ pc' = "start"
    /\ exc' = NoExc
    /\ env' = <<>>
    /\ UNCHANGED <<counts_file, design_file, group, log, output_file, other, helper_vars, tool_vars>>

(***************************************************************************)
(* workflow/helpers/normalization.py                                       *)
(* A call returns Ok(value) or raises: Raise(exception).                   *)
(***************************************************************************)
Ok(v) == [ok |-> TRUE, value |-> v]
Raise(e) == [ok |-> FALSE, error |-> e]

NoGroup == [found |-> FALSE]
Group(ss) == [found |-> TRUE, samples |-> ss]

\* df.loc[df["sample"] == s, "scale_factor"]
FactorsOf(df, s) ==
    LET rows == SelectSeq(df.rows, LAMBDA r : r.sample = s)
    IN  [k \in 1..Len(rows) |-> rows[k].scale_factor]

\* mutant: a missing sample gets the factor 0.0
JsonGet_default_zero(json, s) == IF s \in DOMAIN json.data THEN json.data[s] ELSE FInt(0)

\* norm_factors.get(s, 1.0)
JsonGet(json, s) == IF s \in DOMAIN json.data THEN json.data[s] ELSE FOne

\* mutant: the negative flag is ignored
get_norm_factor_spikein_always_positive(sample, negative, json) ==
    IF ~json.exists THEN Raise("FileNotFoundError")
    ELSE Ok(JsonGet(json, sample))

get_norm_factor_spikein(sample, negative, json) ==
    IF ~json.exists THEN Raise("FileNotFoundError")
    ELSE LET scale_factor == JsonGet(json, sample)
         IN  Ok(IF negative THEN FNeg(scale_factor) ELSE scale_factor)

\* mutant: a sample without a row gets the default factor of the spike-in look-up
get_scaling_factor_default_on_missing(sample, scaling_file) ==
    IF ~scaling_file.exists THEN Raise("FileNotFoundError")
    ELSE IF FactorsOf(scaling_file, sample) = <<>> THEN Ok(FOne)
    ELSE Ok(FactorsOf(scaling_file, sample)[1])

get_scaling_factor(sample, scaling_file) ==
    IF ~scaling_file.exists THEN Raise("FileNotFoundError")
    ELSE IF FactorsOf(scaling_file, sample) = <<>> THEN Raise("IndexError")
    ELSE Ok(FactorsOf(scaling_file, sample)[1])

\* 1.0 / f on Python floats: a zero divisor raises
PyDivides(f) == IsNaN(f) \/ f[1] # 0

\* mutant: the outer reciprocal is missing
HarmonicCombination_sum_of_reciprocals(factors) ==
    IF factors = <<>> THEN Ok(FOne)
    ELSE IF \E k \in 1..Len(factors) : ~PyDivides(factors[k])
         THEN Raise("ZeroDivisionError")
    ELSE Ok(FSum([k \in 1..Len(factors) |-> FDiv(FOne, factors[k])]))

\* mutant: the arithmetic mean of the per-sample factors
MergedFactors_mean(ss, df) ==
    LET found == SelectSeq(ss, LAMBDA s : FactorsOf(df, s) # <<>>)
        mean == FDiv(FSum([k \in 1..Len(found) |-> FactorsOf(df, found[k])[1]]),
                     FInt(Len(found)))
    IN  [k \in 1..(IF found = <<>> THEN 0 ELSE 1) |-> mean]

\* lines 78-82: the first stored factor of each group sample that has a row
MergedFactors(ss, df) ==
    LET found == SelectSeq(ss, LAMBDA s : FactorsOf(df, s) # <<>>)
    IN  [k \in 1..Len(found) |-> FactorsOf(df, found[k])[1]]

\* line 84
HarmonicCombination(factors) ==
    IF factors = <<>> THEN Ok(FOne)
    ELSE IF \E k \in 1..Len(factors) : ~PyDivides(factors[k])
         THEN Raise("ZeroDivisionError")
    ELSE LET total == FSum([k \in 1..Len(factors) |-> FDiv(FOne, factors[k])])
         IN  IF PyDivides(total) THEN Ok(FDiv(FOne, total))
             ELSE Raise("ZeroDivisionError")

\* mutant: a missing table gives the default factor
get_scaling_factor_for_merged_group_default_on_missing(grp, tsv) ==
    IF ~grp.found THEN Raise("KeyError")
    ELSE IF ~tsv.exists THEN Ok(FOne)
    ELSE HarmonicCombination(MergedFactors(grp.samples, tsv))

get_scaling_factor_for_merged_group(grp, tsv) ==
    IF ~grp.found THEN Raise("KeyError")
    ELSE IF ~tsv.exists THEN Raise("FileNotFoundError")
    ELSE HarmonicCombination(MergedFactors(grp.samples, tsv))

\* mutant: the arithmetic mean of the samples' own orlando factors
OrlandoPooled_mean_of_factors(ss, stats) ==
    IF \E k \in 1..Len(ss) : ~stats[ss[k]].exists THEN Raise("FileNotFoundError")
    ELSE IF ss = <<>> THEN Ok(FOne)
    ELSE Ok(FDiv(FSum([k \in 1..Len(ss) |->
                        IF stats[ss[k]].spikein_reads > 0
                        THEN FDiv(FInt(OrlandoScale), FInt(stats[ss[k]].spikein_reads))
                        ELSE FOne]),
                 FInt(Len(ss))))

\* lines 133-140
OrlandoPooled(ss, stats) ==
    IF \E k \in 1..Len(ss) : ~stats[ss[k]].exists THEN Raise("FileNotFoundError")
    ELSE LET total_spikein == SumSeq([k \in 1..Len(ss) |-> stats[ss[k]].spikein_reads])
         IN  Ok(IF total_spikein > 0 THEN FDiv(FInt(OrlandoScale), FInt(total_spikein))
                ELSE FOne)

\* mutant: every row of the table, whatever its sample
group_rows_all(ss, table) == table.rows

\* norm_table[norm_table["sample"].isin(samples)]
group_rows(ss, table) == SelectSeq(table.rows, LAMBDA r : r.sample \in Range(ss))

ColumnSum(rows, col) == SumSeq([k \in 1..Len(rows) |-> rows[k][col]])

\* lines 142-156
WithInputPooled(ss, table) ==
    IF ~table.exists THEN Raise("FileNotFoundError")
    ELSE LET rows == group_rows(ss, table)
             total_s_ctrl == ColumnSum(rows, "spikein_reads_control")
             total_s_ip == ColumnSum(rows, "spikein_reads_ip")
             total_r_ctrl == ColumnSum(rows, "reference_reads_control")
         IN  Ok(IF total_s_ip > 0 /\ total_r_ctrl > 0
                THEN FDiv(FInt(total_s_ctrl * WithInputScale),
                          FInt(total_s_ip * total_r_ctrl))
                ELSE FOne)

\* mutant: the sum of the factors, not divided by their number
MeanFallback_sum(ss, json) ==
    LET factors == [k \in 1..Len(ss) |-> JsonGet(json, ss[k])]
    IN  Ok(IF factors # <<>> THEN FSum(factors) ELSE FOne)

\* lines 158-161
MeanFallback(ss, json) ==
    LET factors == [k \in 1..Len(ss) |-> JsonGet(json, ss[k])]
    IN  Ok(IF factors # <<>> THEN FDiv(FSum(factors), FInt(Len(factors))) ELSE FOne)

get_norm_factor_spikein_for_merged_group(grp, mth, negative, json, stats, table) ==
    IF ~grp.found THEN Raise("KeyError")
    ELSE IF ~json.exists THEN Raise("FileNotFoundError")
    ELSE LET factor == IF mth = "orlando" THEN OrlandoPooled(grp.samples, stats)
                       ELSE IF mth = "with_input" THEN WithInputPooled(grp.samples, table)
                       ELSE MeanFallback(grp.samples, json)
         IN  IF ~factor.ok THEN factor
             ELSE Ok(IF negative THEN FNeg(factor.value) ELSE factor.value)


(***************************************************************************)
(* Inputs of the helper calls                                              *)
(***************************************************************************)
MaxReads == 1       \* largest read count of one stats file or table cell

SampleUniverse == <<"a_x", "b", "b_x">>

\* the sub-lists of a list, in list order
RECURSIVE SubLists(_)
SubLists(s) ==
    IF s = <<>> THEN {<<>>}
    ELSE LET rest == SubLists(Tail(s))
         IN  rest \cup {<<Head(s)>> \o t : t \in rest}

SampleGroups == {Group(ss) : ss \in SubLists(SampleUniverse)} \cup {NoGroup}

\* samples and groups asked for when the table of scaling factors is looked up
MergedUniverse == <<"a", "a_x", "b", "b_x">>
MergedGroups == {Group(ss) : ss \in SubLists(MergedUniverse)} \cup {NoGroup}

Methods == {"orlando", "with_input", "deseq2", "edger", "other"}

StoredFactors == {<<1, 2>>, <<3, 1>>}

JsonKeys == {"a_x", "b"}

JsonFiles ==
    { [exists |-> TRUE, data |-> d] :
      d \in UNION {[keys -> StoredFactors] : keys \in SUBSET JsonKeys} }

StatsFiles ==
    [Range(SampleUniverse) ->
        {[exists |-> TRUE, spikein_reads |-> n] : n \in 0..MaxReads} \cup {NoFile}]

TableRow(s, ip, ctrl, ref) ==
    [sample |-> s, spikein_reads_ip |-> ip, spikein_reads_control |-> ctrl,
     reference_reads_control |-> ref]

\* with_input tables: at most one row per sample, in the order of SampleUniverse
RECURSIVE TableRowsOver(_)
TableRowsOver(ss) ==
    IF ss = <<>> THEN {<<>>}
    ELSE LET rest == TableRowsOver(Tail(ss))
         IN  rest \cup
             { <<TableRow(Head(ss), ip, ctrl, ref)>> \o t :
               ip \in 0..MaxReads, ctrl \in 0..MaxReads, ref \in 0..MaxReads,
               t \in rest }

NormTables == {[exists |-> TRUE, rows |-> rows] : rows \in TableRowsOver(SampleUniverse)}

AnyJson == CHOOSE f \in JsonFiles : DOMAIN f.data = JsonKeys

HelperIdle ==
    /\ sample_group = NoGroup
    /\ method = "none"
    /\ norm_factors = NoFile
    /\ stats_files = <<>>
    /\ norm_table = NoFile
    /\ call = NoCall

\* No CSAW step is running
NoCsawStep ==
    /\ counts_file = NoFile
    /\ design_file = NoFile
    /\ group \in Groups
    /\ pc = "idle"
    /\ exc = NoExc
    /\ env = <<>>
    /\ log = NoFile
    /\ output_file = NoFile
    /\ previous = <<>>
    /\ other = NoStep

CsawIdle == NoCsawStep /\ ToolIdle

(***************************************************************************)
(* Spec: one run of the CSAW step                                          *)
(***************************************************************************)
Init == CsawInit(Matrices \cup {NoFile}, Designs \cup {NoFile}) /\ HelperIdle
Next == OpenLog \/ Compute \/ WriteOutput \/ Except
Spec == Init /\ [][Next]_vars

(***************************************************************************)
(* SpecMerged: the CSAW step followed by a look-up in the table it wrote   *)
(***************************************************************************)
MergedRows ==
    {r \in [{"uid", "consensus_group"} -> Range(MatrixSamples) \cup CellValues("consensus_group")] :
        r["uid"] \in Range(MatrixSamples) /\ r["consensus_group"] \in CellValues("consensus_group")}

MergedDesigns ==
    { [exists |-> TRUE, columns |-> {"uid", "consensus_group"}, rows |-> rows] :
      rows \in UNION {[1..n -> MergedRows] : n \in 0..MaxMergedRows} }

CsawStep == call = NoCall /\ CsawNext

CallMergedGroup ==
    /\ call = NoCall
    /\ \E grp \in MergedGroups :
        /\ sample_group' = grp
        /\ call' = [fn |-> "get_scaling_factor_for_merged_group",
                    ret |-> get_scaling_factor_for_merged_group(grp, output_file)]
    /\ UNCHANGED <<csaw_vars, tool_vars, method, norm_factors, stats_files, norm_table>>

CallScalingFactor ==
    /\ call = NoCall
    /\ \E s \in Range(MergedUniverse) :
        call' = [fn |-> "get_scaling_factor", sample |-> s,
                 ret |-> get_scaling_factor(s, output_file)]
    /\ UNCHANGED <<csaw_vars, tool_vars, sample_group, method, norm_factors, stats_files, norm_table>>

InitMerged == CsawInit(Matrices \cup {NoFile}, MergedDesigns) /\ HelperIdle
NextMerged == CsawStep \/ CallMergedGroup \/ CallScalingFactor
SpecMerged == InitMerged /\ [][NextMerged]_vars

(***************************************************************************)
(* SpecTable: look-ups in a scaling-factor TSV of any content              *)
(***************************************************************************)
MaxTableRows == 2   \* most rows of a scaling-factor TSV

TableFactors == {FNorm(1, 2), FOne, FInt(2)}

ScalingRows == [sample : Range(MergedUniverse), scale_factor : TableFactors]

\* pd.read_csv(scaling_file, sep="\t"): rows in file order, samples may repeat
ScalingTables ==
    {[exists |-> TRUE, rows |-> rows] :
        rows \in UNION {[1..n -> ScalingRows] : n \in 0..MaxTableRows}}

InitTable ==
    /\ counts_file = NoFile
    /\ design_file = NoFile
    /\ group \in Groups
    /\ pc = "idle"
    /\ exc = NoExc
    /\ env = <<>>
    /\ log = NoFile
    /\ output_file \in ScalingTables \cup {NoFile}
    /\ previous = <<>>
    /\ other = NoStep
    /\ ToolIdle
    /\ HelperIdle

NextTable == CallMergedGroup \/ CallScalingFactor
SpecTable == InitTable /\ [][NextTable]_vars

(***************************************************************************)
(* SpecSpikein: look-ups of spike-in normalisation factors                 *)
(***************************************************************************)
InitSpikein ==
    /\ CsawIdle
    /\ sample_group = NoGroup
    /\ call = NoCall
    /\ method \in Methods
    /\ norm_factors \in (IF method = "with_input" THEN {AnyJson} ELSE JsonFiles) \cup {NoFile}
    /\ stats_files \in (IF method = "orlando" THEN StatsFiles
                        ELSE {[s \in Range(SampleUniverse) |-> NoFile]})
    /\ norm_table \in (IF method = "with_input" THEN NormTables ELSE {}) \cup {NoFile}

CallSpikein ==
    /\ call = NoCall
    /\ \E s \in Range(SampleUniverse), negative \in BOOLEAN :
        call' = [fn |-> "get_norm_factor_spikein", sample |-> s, negative |-> negative,
                 ret |-> get_norm_factor_spikein(s, negative, norm_factors)]
    /\ UNCHANGED <<csaw_vars, tool_vars, sample_group, method, norm_factors, stats_files, norm_table>>

\* records: the log records the call emits; lines 126-163 hold no logging
\* statement and the module imports no logger
CallSpikeinMergedGroup ==
    /\ call = NoCall
    /\ \E grp \in SampleGroups, negative \in BOOLEAN :
        /\ sample_group' = grp
        /\ call' = [fn |-> "get_norm_factor_spikein_for_merged_group",
                    negative |-> negative,
                    records |-> <<>>,
                    ret |-> get_norm_factor_spikein_for_merged_group(
                                grp, method, negative, norm_factors, stats_files, norm_table)]
    /\ UNCHANGED <<csaw_vars, tool_vars, method, norm_factors, stats_files, norm_table>>

NextSpikein == CallSpikein \/ CallSpikeinMergedGroup
SpecSpikein == InitSpikein /\ [][NextSpikein]_vars

(***************************************************************************)
(* SpecRerun: the CSAW step run again on the same inputs                   *)
(***************************************************************************)
NextRerun == OpenLog \/ Compute \/ WriteOutput \/ Except \/ Rerun
SpecRerun == Init /\ [][NextRerun]_vars

(***************************************************************************)
(* SpecConcurrent: the CSAW steps of two groups run at the same time on    *)
(* the same count matrix and design, in any interleaving; or a spike-in    *)
(* look-up.  Each step has its own output file and its own log file.       *)
(***************************************************************************)
OtherGroup == "h"

OtherStart ==
    [group |-> OtherGroup, pc |-> "start", exc |-> NoExc, env |-> <<>>,
     log |-> NoFile, output_file |-> NoFile]

InitConcurrent ==
    \/ /\ counts_file \in Matrices \cup {NoFile}
       /\ design_file \in MergedDesigns
       /\ group \in Groups
       /\ pc = "start"
       /\ exc = NoExc
       /\ env = <<>>
       /\ log = NoFile
       /\ output_file = NoFile
       /\ previous = <<>>
       /\ other = OtherStart
       /\ ToolIdle
       /\ HelperIdle
    \/ InitSpikein

Lookup == pc = "idle" /\ NextSpikein

NextConcurrent == CsawNext \/ OtherNext \/ Lookup

SpecConcurrent == InitConcurrent /\ [][NextConcurrent]_vars

(***************************************************************************)
(* SpecAll: any one of the computations, on inputs that may be missing     *)
(***************************************************************************)
InitAll ==
    \/ CsawInit(Matrices \cup {NoFile}, MergedDesigns \cup {NoFile}) /\ HelperIdle
    \/ InitSpikein

NextAll ==
    CsawStep \/ CallMergedGroup \/ CallScalingFactor \/ CallSpikein \/ CallSpikeinMergedGroup

SpecAll == InitAll /\ [][NextAll]_vars

(***************************************************************************)
(* cli/snakemake_builder.py: SnakemakeCommandBuilder                       *)
(* A builder is [cmd, targets, cores]; tokens are strings.  A method is an *)
(* operator from the builder (and its arguments) to the builder it leaves. *)
(***************************************************************************)
MaxCalls == 3       \* largest number of method calls on one builder

Digits == <<"0", "1", "2", "3", "4", "5", "6", "7", "8", "9">>

\* str(n) for a natural number
RECURSIVE Str(_)
Str(n) == IF n < 10 THEN Digits[n + 1] ELSE Str(n \div 10) \o Digits[(n % 10) + 1]

\* [f"{k}={v}" for k, v in kwargs.items()]; kwargs is a sequence of <<k, v>>
KeyValues(kwargs) == [i \in 1..Len(kwargs) |-> kwargs[i][1] \o "=" \o kwargs[i][2]]

\* lines 26-46: __init__ and _add_cores
NewBuilder(snakefile_path, cores) ==
    [constructed |-> TRUE,
     cmd |-> <<"snakemake", "--snakefile", snakefile_path, "--show-failed-logs">>
             \o <<"-c", Str(cores)>>,
     cores |-> cores,
     targets |-> <<>>]

Extend(b, tokens) == [b EXCEPT !.cmd = @ \o tokens]

add_configfile(b, config_file) == Extend(b, <<"--configfile", config_file>>)

add_config(b, kwargs) == Extend(b, <<"--config">> \o KeyValues(kwargs))

\* an empty path stands for None and for ""
add_profile_from_path(b, profile_path) ==
    IF profile_path # "" THEN Extend(b, <<"--profile", profile_path>>) ELSE b

add_profile_with_logging(b, profile_path, preset, is_custom) ==
    IF profile_path # "" THEN add_profile_from_path(b, profile_path) ELSE b

add_unlock(b) == Extend(b, <<"--unlock">>)

add_dry_run(b) == Extend(b, <<"--dry-run">>)

add_show_failed_logs(b) ==
    IF "--show-failed-logs" \notin Range(b.cmd) THEN Extend(b, <<"--show-failed-logs">>) ELSE b

\* which: the container runtimes shutil.which finds
add_container_support(b, which) ==
    IF "apptainer" \in which THEN Extend(b, <<"--use-apptainer">>)
    ELSE IF "singularity" \in which THEN Extend(b, <<"--use-singularity">>)
    ELSE b

\* dropped: the arguments the filter function rejects ({} without a filter)
add_pass_through_args(b, args, dropped) ==
    IF args = <<>> THEN b
    ELSE LET filtered == SelectSeq(args, LAMBDA arg : arg \notin dropped)
         IN  IF filtered # <<>> THEN Extend(b, filtered) ELSE b

\* mutant: the target is appended to the command at once
add_target_in_place(b, target) == Extend(b, <<target>>)

add_target(b, target) == [b EXCEPT !.targets = Append(@, target)]

add_directory(b, directory) == Extend(b, <<"--directory", directory>>)

add_default_resources(b, kwargs) ==
    IF kwargs # <<>> THEN Extend(b, <<"--default-resources">> \o KeyValues(kwargs)) ELSE b

\* slurm: preset.startswith("s")
add_queue(b, queue, preset, slurm) ==
    IF queue # "" /\ preset # "" /\ slurm
    THEN Extend(b, <<"--default-resources", "slurm_partition=" \o queue>>)
    ELSE b

add_workflow_args(b, workflow_args) ==
    IF workflow_args # <<>>
    THEN Extend(b, <<"--config", "workflow_args=" \o JoinWith(workflow_args, " ")>>)
    ELSE b

build(b) == b.cmd \o b.targets

\* Arguments the calls of the model draw from
SnakefilePaths == {"Snakefile"}
CoreCounts == {1, 12}
ConfigFiles == {"config.yaml"}
ConfigKwargs == {<<>>, << <<"genome", "hg38">> >>}
ProfilePaths == {"", "profiles/slurm"}
Runtimes == {{}, {"singularity"}, {"apptainer", "singularity"}}
PassThroughArgs == {<<>>, <<"--keep-going">>, <<"-n", "--rerun-incomplete">>}
Filters == {{}, {"-n"}}
Targets == {"all", "geo_download_all"}
Directories == {"."}
ResourceKwargs == {<<>>, << <<"mem_mb", "4000">> >>}
Queues == {"", "short"}
Presets == {"", "ss", "le"}
WorkflowArgs == {<<>>, <<"-n", "-k">>}

\* preset.startswith("s") for the presets above
StartsWithS(preset) == preset = "ss"

\* One method call on the builder: the builder it leaves, and the call recorded
MethodCall(fn, args, after) ==
    /\ builder.constructed
    /\ Len(calls) < MaxCalls
    /\ builder' = after
    /\ calls' = Append(calls, [fn |-> fn, args |-> args])
    /\ UNCHANGED <<csaw_vars, helper_vars, cache>>

AddConfigfile ==
    \E f \in ConfigFiles : MethodCall("add_configfile", <<f>>, add_configfile(builder, f))

AddConfig ==
    \E kw \in ConfigKwargs : MethodCall("add_config", <<kw>>, add_config(builder, kw))

AddProfileFromPath ==
    \E path \in ProfilePaths :
        MethodCall("add_profile_from_path", <<path>>, add_profile_from_path(builder, path))

AddProfileWithLogging ==
    \E path \in ProfilePaths, is_custom \in BOOLEAN :
        MethodCall("add_profile_with_logging", <<path>>,
                   add_profile_with_logging(builder, path, "ss", is_custom))

AddUnlock == MethodCall("add_unlock", <<>>, add_unlock(builder))

AddDryRun == MethodCall("add_dry_run", <<>>, add_dry_run(builder))

AddShowFailedLogs == MethodCall("add_show_failed_logs", <<>>, add_show_failed_logs(builder))

AddContainerSupport ==
    \E which \in Runtimes :
        MethodCall("add_container_support", <<which>>, add_container_support(builder, which))

AddPassThroughArgs ==
    \E args \in PassThroughArgs, dropped \in Filters :
        MethodCall("add_pass_through_args", <<args, dropped>>,
                   add_pass_through_args(builder, args, dropped))

AddTarget ==
    \E target \in Targets : MethodCall("add_target", <<target>>, add_target(builder, target))

AddDirectory ==
    \E dir \in Directories : MethodCall("add_directory", <<dir>>, add_directory(builder, dir))

AddDefaultResources ==
    \E kw \in ResourceKwargs :
        MethodCall("add_default_resources", <<kw>>, add_default_resources(builder, kw))

AddQueue ==
    \E queue \in Queues, preset \in Presets :
        MethodCall("add_queue", <<queue, preset>>,
                   add_queue(builder, queue, preset, StartsWithS(preset)))

AddWorkflowArgs ==
    \E args \in WorkflowArgs :
        MethodCall("add_workflow_args", <<args>>, add_workflow_args(builder, args))

\* build() returns a new list; the builder keeps its own
Build ==
    /\ builder.constructed
    /\ Len(calls) < MaxCalls
    /\ call' = [fn |-> "build", ret |-> build(builder)]
    /\ calls' = Append(calls, [fn |-> "build", args |-> <<>>])
    /\ UNCHANGED <<csaw_vars, sample_group, method, norm_factors, stats_files, norm_table,
                   builder, cache>>

InitBuilder ==
    /\ NoCsawStep
    /\ HelperIdle
    /\ \E path \in SnakefilePaths, cores \in CoreCounts : builder = NewBuilder(path, cores)
    /\ calls = <<>>
    /\ cache = <<>>

NextBuilder ==
    \/ AddConfigfile \/ AddConfig \/ AddProfileFromPath \/ AddProfileWithLogging
    \/ AddUnlock \/ AddDryRun \/ AddShowFailedLogs \/ AddContainerSupport
    \/ AddPassThroughArgs \/ AddTarget \/ AddDirectory \/ AddDefaultResources
    \/ AddQueue \/ AddWorkflowArgs \/ Build

SpecBuilder == InitBuilder /\ [][NextBuilder]_vars

(***************************************************************************)
(* tools/container_strategies.py: get_container_versions and its cache     *)
(* A mapping {package: version} is a set of <<package, version>> pairs; a  *)
(* strategy returns [found, versions], found = FALSE standing for None.    *)
(* cache is _container_version_cache, a function from URIs to mappings.    *)
(***************************************************************************)
CONTAINER_STRATEGIES ==
    << [type |-> "conda-meta", paths |-> <<"/opt/conda/conda-meta">>],
       [type |-> "conda-meta", paths |-> <<"/usr/local/conda-meta">>],
       [type |-> "pip-list", paths |-> <<>>],
       [type |-> "version-command", paths |-> <<>>] >>

NoVersions == [found |-> FALSE, versions |-> {}]
Found(versions) == [found |-> TRUE, versions |-> versions]

\* "if versions:" -- neither None nor an empty dict
Truthy(returned) == returned.found /\ returned.versions # {}

\* lines 225-260: the loop over the strategies from the k-th on; outcomes[k] is
\* what the k-th strategy's query of the container returns
RECURSIVE TryStrategies(_, _)
TryStrategies(k, outcomes) ==
    IF k > Len(CONTAINER_STRATEGIES) THEN [versions |-> {}, ran |-> <<>>]
    ELSE IF Truthy(outcomes[k])
         THEN [versions |-> outcomes[k].versions, ran |-> <<CONTAINER_STRATEGIES[k]>>]
         ELSE LET rest == TryStrategies(k + 1, outcomes)
              IN  [versions |-> rest.versions,
                   ran |-> <<CONTAINER_STRATEGIES[k]>> \o rest.ran]

\* _container_version_cache[container_uri] = versions
Store(c, uri, versions) ==
    [u \in DOMAIN c \cup {uri} |-> IF u = uri THEN versions ELSE c[u]]

\* mutant: the empty mapping of the fall-back is not stored
get_container_versions_failures_not_cached(c, container_uri, apptainer_cmd, outcomes) ==
    IF container_uri = "" \/ apptainer_cmd = ""
    THEN [ret |-> {}, ran |-> <<>>, cache |-> c]
    ELSE IF container_uri \in DOMAIN c
    THEN [ret |-> c[container_uri], ran |-> <<>>, cache |-> c]
    ELSE LET t == TryStrategies(1, outcomes)
         IN  [ret |-> t.versions, ran |-> t.ran,
              cache |-> IF t.versions # {} THEN Store(c, container_uri, t.versions) ELSE c]

\* lines 193-260; an empty string stands for None and for ""
get_container_versions(c, container_uri, apptainer_cmd, outcomes) ==
    IF container_uri = "" \/ apptainer_cmd = ""
    THEN [ret |-> {}, ran |-> <<>>, cache |-> c]
    ELSE IF container_uri \in DOMAIN c
    THEN [ret |-> c[container_uri], ran |-> <<>>, cache |-> c]
    ELSE LET t == TryStrategies(1, outcomes)
         IN  [ret |-> t.versions, ran |-> t.ran,
              cache |-> Store(c, container_uri, t.versions)]

Uris == {"", "docker://seqnado", "docker://meme"}
ApptainerCmds == {"", "apptainer"}
CondaVersions == {<<"samtools", "1.17">>}
PipVersions == {<<"deeptools", "3.5">>}

\* What the four queries of a container can return: the conda-meta listings
\* and the pip listings each either fail or yield their packages
Outcomes ==
    {<<a, b, c, d>> : a \in {NoVersions, Found(CondaVersions)},
                      b \in {NoVersions, Found(CondaVersions)},
                      c \in {NoVersions, Found(PipVersions)},
                      d \in {NoVersions, Found(PipVersions)}}

NotQueried == <<NoVersions, NoVersions, NoVersions, NoVersions>>

\* outcomes is recorded as NotQueried when the call returns before the loop
GetContainerVersions ==
    \E uri \in Uris, cmd \in ApptainerCmds, outcomes \in Outcomes :
        /\ Len(calls) < MaxCalls
        /\ (uri = "" \/ cmd = "" \/ uri \in DOMAIN cache) => outcomes = NotQueried
        /\ LET r == get_container_versions(cache, uri, cmd, outcomes)
           IN  /\ cache' = r.cache
               /\ calls' = Append(calls, [fn |-> "get_container_versions",
                                          container_uri |-> uri, apptainer_cmd |-> cmd,
                                          outcomes |-> outcomes, ran |-> r.ran, ret |-> r.ret])
        /\ UNCHANGED <<csaw_vars, helper_vars, builder>>

\* lines 263-265
ClearVersionCache ==
    /\ Len(calls) < MaxCalls
    /\ cache' = <<>>
    /\ calls' = Append(calls, [fn |-> "clear_version_cache"])
    /\ UNCHANGED <<csaw_vars, helper_vars, builder>>

InitVersions == NoCsawStep /\ HelperIdle /\ ToolIdle
NextVersions == GetContainerVersions \/ ClearVersionCache
SpecVersions == InitVersions /\ [][NextVersions]_vars

(***************************************************************************)
(* utils.py: extract_cores_from_options                                    *)
(* options is a sequence of tokens; positions are counted from 1 here and  *)
(* from 0 in the source.                                                   *)
(***************************************************************************)
MaxOptions == 3     \* longest option list
MaxCores == 12      \* largest number of cores written in an option

\* int(token): the number whose decimal writing is the token, or ValueError
PyInt(token) ==
    IF \E n \in 0..MaxCores : Str(n) = token
    THEN Ok(CHOOSE n \in 0..MaxCores : Str(n) = token)
    ELSE Raise("ValueError")

\* options.index(flag), when flag is in options
IndexOf(options, flag) ==
    CHOOSE i \in 1..Len(options) :
        options[i] = flag /\ \A k \in 1..(i - 1) : options[k] # flag

\* [o for i, o in enumerate(options) if i not in positions]
WithoutPositions(options, positions) ==
    LET kept == SelectSeq([i \in 1..Len(options) |-> i], LAMBDA i : i \notin positions)
    IN  [k \in 1..Len(kept) |-> options[kept[k]]]

\* the three statements of one try block (lines 20-24 and 27-33)
TakeFlag(options, flag) ==
    IF flag \notin Range(options) THEN Raise("ValueError")
    ELSE LET cores_flag == IndexOf(options, flag)
         IN  IF cores_flag + 1 > Len(options) THEN Raise("IndexError")
             ELSE LET cores == PyInt(options[cores_flag + 1])
                  IN  IF ~cores.ok THEN Raise("ValueError")
                      ELSE Ok([options |-> WithoutPositions(options, {cores_flag, cores_flag + 1}),
                               cores |-> cores.value])

\* lines 14-41.  An exception raised inside the handler of lines 25-35 is not
\* caught by the IndexError handler of the same try statement.
extract_cores_from_options(options) ==
    LET short == TakeFlag(options, "-c")
    IN  IF short.ok THEN short
        ELSE IF short.error = "ValueError"
        THEN LET long == TakeFlag(options, "--cores")
             IN  IF long.ok THEN long
                 ELSE IF long.error = "ValueError"
                 THEN Ok([options |-> options, cores |-> 1])
                 ELSE long
        ELSE Ok([options |-> WithoutPositions(options, {IndexOf(options, "-c")}),
                 cores |-> 1])

OptionTokens == {"-c", "--cores", "4", "12", "-n"}
OptionLists == UNION {[1..n -> OptionTokens] : n \in 0..MaxOptions}

\* cli/commands/pipeline.py line 250: the CLI passes its extra arguments
CallExtractCores ==
    \E options \in OptionLists :
        /\ call' = [fn |-> "extract_cores_from_options", options |-> options,
                    ret |-> extract_cores_from_options(options)]
        /\ UNCHANGED <<csaw_vars, sample_group, method, norm_factors, stats_files,
                       norm_table, tool_vars>>

InitCores == NoCsawStep /\ HelperIdle /\ ToolIdle
NextCores == CallExtractCores
SpecCores == InitCores /\ [][NextCores]_vars

(***************************************************************************)
(* binary64 arithmetic on positive normal numbers                          *)
(* A float is [m, e] and stands for m * 2^e with 2^52 <= m < 2^53.  The    *)
(* mantissa is a two-limb natural <<hi, lo>> = hi * 2^27 + lo, so that no  *)
(* intermediate value leaves 32 bits; limbs hold numbers below 2^57.       *)
(* Division and addition round to nearest, ties to even.                   *)
(***************************************************************************)
MantissaBits == 53
Limb == 2^27

WZero == <<0, 0>>
WLeq(a, b) == a[1] < b[1] \/ (a[1] = b[1] /\ a[2] <= b[2])
WAdd(a, b) ==
    LET lo == a[2] + b[2]
    IN  IF lo >= Limb THEN <<a[1] + b[1] + 1, lo - Limb>> ELSE <<a[1] + b[1], lo>>
\* a - b for a >= b
WSub(a, b) ==
    IF a[2] >= b[2] THEN <<a[1] - b[1], a[2] - b[2]>>
    ELSE <<a[1] - b[1] - 1, a[2] + Limb - b[2]>>
WDouble(a) == WAdd(a, a)
WHalf(a) == <<a[1] \div 2, (a[2] \div 2) + (IF a[1] % 2 = 1 THEN Limb \div 2 ELSE 0)>>
WOdd(a) == a[2] % 2 = 1
WInc(a) == WAdd(a, <<0, 1>>)

\* 2^52 and 2^53
MinMantissa == <<2^(MantissaBits - 1 - 27), 0>>
EndMantissa == <<2^(MantissaBits - 27), 0>>

\* the float with mantissa q, or the next power of two when rounding reached 2^53
Rounded(q, e) ==
    IF q = EndMantissa THEN [m |-> MinMantissa, e |-> e + 1] ELSE [m |-> q, e |-> e]

\* float(n) for an integer 0 < n < 2^26: n has k bits and is shifted up to 53
F64FromInt(n) ==
    LET k == CHOOSE b \in 1..26 : 2^(b - 1) <= n /\ n < 2^b
    IN  [m |-> <<n * 2^(26 - k), 0>>, e |-> k - MantissaBits]

\* a * j for a < 2^53 and 0 <= j <= 15
WTimes(a, j) == LET lo == a[2] * j IN <<a[1] * j + (lo \div Limb), lo % Limb>>

\* a * 2^k, for a result below 2^57
WShiftLeft(a, k) ==
    IF k < 27 THEN <<a[1] * 2^k + (a[2] \div 2^(27 - k)), (a[2] % 2^(27 - k)) * 2^k>>
    ELSE <<a[2] * 2^(k - 27), 0>>

\* one more base-16 digit of a long division by d: the quotient so far and
\* the remainder, which is below d
DivStep(before, d) ==
    LET scaled == WShiftLeft(before.r, 4)
        digit  == CHOOSE j \in 0..15 :
                     /\ WLeq(WTimes(d, j), scaled)
                     /\ j = 15 \/ ~WLeq(WTimes(d, j + 1), scaled)
    IN  [q |-> WAdd(WShiftLeft(before.q, 4), <<0, digit>>),
         r |-> WSub(scaled, WTimes(d, digit))]

\* k further base-16 digits of a long division by d; when the remainder is 0
\* the digits left are all 0
RECURSIVE DivDigits(_, _, _)
DivDigits(before, d, k) ==
    IF k = 0 THEN before
    ELSE LET after == DivStep(before, d)
         IN  IF after.r = WZero THEN [q |-> WShiftLeft(after.q, 4 * (k - 1)), r |-> WZero]
             ELSE DivDigits(after, d, k - 1)

\* the quotient r / d for d <= r < 2d: its 53 leading bits and the remainder
Quotient(r, d) == DivDigits([q |-> <<0, 1>>, r |-> WSub(r, d)], d, (MantissaBits - 1) \div 4)

\* the quotient rounded to 53 bits: to nearest, ties to even
RoundedQuotient(division, d, e) ==
    IF division.r = WZero THEN [m |-> division.q, e |-> e - (MantissaBits - 1)]
    ELSE LET twice  == WDouble(division.r)
             half   == WLeq(d, twice)
             sticky == (IF half THEN WSub(twice, d) ELSE twice) # WZero
             up     == half /\ (sticky \/ WOdd(division.q))
         IN  Rounded(IF up THEN WInc(division.q) ELSE division.q, e - (MantissaBits - 1))

\* x / y
F64Div(x, y) ==
    IF WLeq(y.m, x.m) THEN RoundedQuotient(Quotient(x.m, y.m), y.m, x.e - y.e)
    ELSE RoundedQuotient(Quotient(WDouble(x.m), y.m), y.m, x.e - y.e - 1)

\* a shifted right by k bits, the lowest bit set when a set bit was lost
ShiftRightSticky(a, k) ==
    LET shifted == IF k < 27
                   THEN <<a[1] \div 2^k, (a[2] \div 2^k) + (a[1] % 2^k) * 2^(27 - k)>>
                   ELSE <<0, a[1] \div 2^(k - 27)>>
        lost    == IF k < 27 THEN a[2] % 2^k # 0
                   ELSE a[2] # 0 \/ a[1] % 2^(k - 27) # 0
    IN  IF lost /\ ~WOdd(shifted) THEN WInc(shifted) ELSE shifted

WTimes8(a) == WDouble(WDouble(WDouble(a)))

\* big + small for big.e >= small.e, with three extra bits below the mantissa
AddOrdered(big, small) ==
    LET shift  == IF big.e - small.e > MantissaBits + 3 THEN MantissaBits + 3
                  ELSE big.e - small.e
        total  == WAdd(WTimes8(big.m), ShiftRightSticky(WTimes8(small.m), shift))
        carry  == WLeq(WTimes8(EndMantissa), total)
        sum    == IF carry THEN ShiftRightSticky(total, 1) ELSE total
        q      == WHalf(WHalf(WHalf(sum)))
        rem    == sum[2] % 8
        up     == rem > 4 \/ (rem = 4 /\ WOdd(q))
    IN  Rounded(IF up THEN WInc(q) ELSE q, IF carry THEN big.e + 1 ELSE big.e)

\* x + y
F64Add(x, y) == IF x.e >= y.e THEN AddOrdered(x, y) ELSE AddOrdered(y, x)

F64One == F64FromInt(1)

(***************************************************************************)
(* SpecFloat: the CSAW factors of one group and their merged factor, in    *)
(* binary64.  Library sizes are positive; the TSV is taken to give back    *)
(* the binary64 value that was written.                                    *)
(***************************************************************************)
MaxLibSize == 7     \* largest library size of a sample

FloatSamples == <<"a", "a_x", "b">>

\* line 88: the library sizes of the group's samples
LibSizesGroup ==
    UNION {{[k \in 1..n |-> [index |-> FloatSamples[k], value |-> sizes[k]]] :
                sizes \in [1..n -> 1..MaxLibSize]} : n \in 1..Len(FloatSamples)}

\* lines 95-96: lib_sizes_group.mean() / lib_sizes_group
scale_factors64(grp_sizes) ==
    LET total == SumSeq([k \in 1..Len(grp_sizes) |-> grp_sizes[k].value])
        mean  == F64Div(F64FromInt(total), F64FromInt(Len(grp_sizes)))
    IN  [k \in 1..Len(grp_sizes) |->
            [index |-> grp_sizes[k].index,
             value |-> F64Div(mean, F64FromInt(grp_sizes[k].value))]]

\* sum(1.0 / f for f in factors), over the first k factors, left to right
RECURSIVE SumOfReciprocals64(_, _)
SumOfReciprocals64(factors, k) ==
    IF k = 1 THEN F64Div(F64One, factors[1])
    ELSE F64Add(SumOfReciprocals64(factors, k - 1), F64Div(F64One, factors[k]))

\* mutant: the arithmetic mean of the factors
HarmonicCombination64_mean(factors) ==
    IF factors = <<>> THEN Ok(F64One)
    ELSE LET RECURSIVE Sum64(_)
             Sum64(k) == IF k = 1 THEN factors[1] ELSE F64Add(Sum64(k - 1), factors[k])
         IN  Ok(F64Div(Sum64(Len(factors)), F64FromInt(Len(factors))))

\* normalization.py line 84, on positive factors
HarmonicCombination64(factors) ==
    IF factors = <<>> THEN Ok(F64One)
    ELSE Ok(F64Div(F64One, SumOfReciprocals64(factors, Len(factors))))

\* normalization.py lines 74-84
get_scaling_factor_for_merged_group64(grp, tsv) ==
    IF ~grp.found THEN Raise("KeyError")
    ELSE IF ~tsv.exists THEN Raise("FileNotFoundError")
    ELSE HarmonicCombination64(MergedFactors(grp.samples, tsv))

InitFloat ==
    /\ counts_file = NoFile
    /\ design_file = NoFile
    /\ group \in Groups
    /\ pc = "sizes"
    /\ exc = NoExc
    /\ env \in {[lib_sizes_group |-> sizes] : sizes \in LibSizesGroup}
    /\ log = [exists |-> TRUE, lines |-> <<>>]
    /\ output_file = NoFile
    /\ previous = <<>>
    /\ other = NoStep
    /\ ToolIdle
    /\ HelperIdle

\* lines 95-96
ComputeFloat ==
    /\ pc = "sizes"
    /\ env' = [lib_sizes_group |-> env.lib_sizes_group,
               scale_factors |-> scale_factors64(env.lib_sizes_group)]
    /\ pc' = "write"
    /\ UNCHANGED <<counts_file, design_file, group, exc, log, output_file, previous, other,
                   helper_vars, tool_vars>>

\* the merged bigwig of a consensus group over samples of the step
CallMergedGroupFloat ==
    /\ pc = "done"
    /\ call = NoCall
    /\ \E ss \in SubLists(FloatSamples) :
        /\ sample_group' = Group(ss)
        /\ call' = [fn |-> "get_scaling_factor_for_merged_group",
                    ret |-> get_scaling_factor_for_merged_group64(Group(ss), output_file)]
    /\ UNCHANGED <<csaw_vars, tool_vars, method, norm_factors, stats_files, norm_table>>

NextFloat == ComputeFloat \/ WriteOutput \/ CallMergedGroupFloat
SpecFloat == InitFloat /\ [][NextFloat]_vars

(***************************************************************************)
(* Properties of the CSAW step (checked under Spec)                        *)
(***************************************************************************)
RECURSIVE SetSum(_, _)
SetSum(S, f) ==
    IF S = {} THEN 0
    ELSE LET x == CHOOSE y \in S : TRUE IN f[x] + SetSum(S \ {x}, f)

Computed == pc \in {"write", "done", "except", "raised"}

\* the samples that have a column in the count matrix
InMatrix(name) ==
    counts_file.exists /\ \E j \in 1..Len(counts_file.columns) : counts_file.columns[j] = BamPath(name)

\* the sum of a sample's bin counts over all bins
LibSize(name) ==
    LET j == CHOOSE c \in 1..Len(counts_file.columns) : counts_file.columns[c] = BamPath(name)
    IN  SetSum(1..Len(counts_file.data), [b \in 1..Len(counts_file.data) |-> counts_file.data[b][j]])

DesignRowIds == 1..Len(design_file.rows)

RowsWhere(col) ==
    IF col \in design_file.columns
    THEN {i \in DesignRowIds : design_file.rows[i][col] = group}
    ELSE {}

\* the design rows of the requested group: scaling_group, else consensus_group, else all
ResolvedRows ==
    IF RowsWhere("scaling_group") # {} THEN RowsWhere("scaling_group")
    ELSE IF RowsWhere("consensus_group") # {} THEN RowsWhere("consensus_group")
    ELSE DesignRowIds

\* the rows of the resolved group whose sample has a column in the count matrix
MemberRows == {i \in ResolvedRows : InMatrix(env["uid"][i])}

InOrder(S) == SelectSeq([i \in 1..Len(design_file.rows) |-> i], LAMBDA i : i \in S)

\* C1: every written scale factor is mean(L) / L_i, with L the sums of the
\* samples' bin counts and the mean taken over the members of the resolved
\* group that are present in the count matrix (each member row counted), so
\* that L_i * s_i is the same value for every sample of the group.
C1_ScaleFactorIsGroupMeanOverLibSize ==
    pc = "done" =>
        LET total == SetSum(MemberRows, [i \in MemberRows |-> LibSize(env["uid"][i])])
            n == Cardinality(MemberRows)
        IN  /\ \A i \in MemberRows :
                \E k \in 1..Len(output_file.rows) : output_file.rows[k].sample = env["uid"][i]
            /\ \A k \in 1..Len(output_file.rows) :
                LET row == output_file.rows[k]
                    s == row.scale_factor
                IN  /\ \E i \in MemberRows : env["uid"][i] = row.sample
                    /\ LibSize(row.sample) > 0 =>
                        /\ IsFinite(s)
                        /\ s[1] * n * LibSize(row.sample) = s[2] * total

\* C1 witness: a two-sample group with different library sizes, and a third
\* sample of the matrix outside the group with reads of its own
C1_Witness ==
    /\ pc = "done"
    /\ Len(output_file.rows) = 2
    /\ output_file.rows[1].sample # output_file.rows[2].sample
    /\ LibSize(output_file.rows[1].sample) = 1
    /\ LibSize(output_file.rows[2].sample) = 2
    /\ \E name \in Range(MatrixSamples) :
        /\ \A k \in 1..2 : output_file.rows[k].sample # name
        /\ LibSize(name) = 2

\* C8: the group's samples are the uids of the scaling_group rows when there
\* are any, else of the consensus_group rows when there are any, else of all rows.
C8_GroupResolutionOrder ==
    (Computed /\ "group_samples" \in DOMAIN env) =>
        env["group_samples"] =
            [k \in 1..Cardinality(ResolvedRows) |-> env["uid"][InOrder(ResolvedRows)[k]]]

\* C8 witness: the name is in both columns, on different rows
C8_Witness ==
    /\ pc = "done"
    /\ RowsWhere("scaling_group") # {}
    /\ RowsWhere("consensus_group") # {}
    /\ RowsWhere("scaling_group") \cap RowsWhere("consensus_group") = {}
    /\ \E i \in RowsWhere("consensus_group") :
        \A k \in 1..Len(env["group_samples"]) : env["group_samples"][k] # env["uid"][i]

\* sample_id + "_" + ip, spelled out for the values of the model
Joined(sample_id, ip) ==
    CASE sample_id = "a" /\ ip = "x" -> "a_x"
      [] sample_id = "b" /\ ip = "x" -> "b_x"

\* C9: a row's uid is its uid cell; else sample_id_ip; else sample_id; with
\* neither a uid nor a sample_id column the computation fails.
C9_UidDerivation ==
    (Computed /\ counts_file.exists /\ design_file.exists) =>
        LET cols == design_file.columns
            rows == design_file.rows
        IN  IF "uid" \in cols
            THEN env["uid"] = [i \in DesignRowIds |-> rows[i]["uid"]]
            ELSE IF "sample_id" \in cols /\ "ip" \in cols
            THEN env["uid"] = [i \in DesignRowIds |-> Joined(rows[i]["sample_id"], rows[i]["ip"])]
            ELSE IF "sample_id" \in cols
            THEN env["uid"] = [i \in DesignRowIds |-> rows[i]["sample_id"]]
            ELSE /\ pc \in {"except", "raised"}
                 /\ exc # NoExc
                 /\ ~output_file.exists

\* C9 witness: uids joined from sample_id and ip reach the output table
C9_Witness ==
    /\ pc = "done"
    /\ "uid" \notin design_file.columns
    /\ {"sample_id", "ip"} \subseteq design_file.columns
    /\ \E k \in 1..Len(output_file.rows) : output_file.rows[k].sample = "a_x"

\* C10 (as claimed): the output holds exactly one row for each sample of the
\* resolved group present in the count matrix, and no other row.
C10_OneRowPerGroupSample ==
    pc = "done" =>
        /\ {output_file.rows[k].sample : k \in 1..Len(output_file.rows)}
               = {env["uid"][i] : i \in MemberRows}
        /\ \A k1, k2 \in 1..Len(output_file.rows) :
               output_file.rows[k1].sample = output_file.rows[k2].sample => k1 = k2

\* the try body got as far as resolving the group
GroupResolved == Computed /\ counts_file.exists /\ design_file.exists /\ UidDerivable(design_file)

NoSamplesError == "ValueError: no samples from group found in counts"

\* C11: when no sample of the resolved group has a column in the count
\* matrix, the run ends with the "no samples from group" error and the
\* output file is never written.
C11_EmptyIntersectionFails ==
    (GroupResolved /\ MemberRows = {}) =>
        /\ pc \in {"except", "raised"}
        /\ exc = NoSamplesError
        /\ ~output_file.exists

\* C11 witness: the group has rows, none of them names a matrix column, and
\* the error has been re-raised
C11_Witness ==
    /\ GroupResolved /\ pc = "raised"
    /\ ResolvedRows # {}
    /\ MemberRows = {}
    /\ log.lines[Len(log.lines)] = "ERROR: " \o NoSamplesError

\* C12 (as claimed): when a sample of the resolved group that is present in
\* the matrix has library size 0, the run ends with an error and writes no
\* output; no written scale factor is ever infinite or NaN.
C12_ZeroLibrarySizeRejected ==
    /\ (GroupResolved /\ \E i \in MemberRows : LibSize(env["uid"][i]) = 0) =>
            /\ pc \in {"except", "raised"}
            /\ exc # NoExc
            /\ ~output_file.exists
    /\ output_file.exists =>
            \A k \in 1..Len(output_file.rows) : IsFinite(output_file.rows[k].scale_factor)

\* the group name is in neither grouping column of the design
NameUnmatched ==
    GroupResolved /\ RowsWhere("scaling_group") = {} /\ RowsWhere("consensus_group") = {}

\* C16 (as claimed): when the group name matches no row of scaling_group or
\* consensus_group the run ends with an error and produces no scale factors.
C16_UnmatchedGroupIsFatal ==
    NameUnmatched =>
        /\ pc \in {"except", "raised"}
        /\ exc # NoExc
        /\ ~output_file.exists

\* C16 (amended): when the group name matches no row of scaling_group or
\* consensus_group the run logs that it uses all samples and takes the uids
\* of all design rows as the group; it succeeds whenever one of them has a
\* column in the count matrix, and then writes rows for exactly those.
C16_UnmatchedGroupUsesAllRows ==
    NameUnmatched =>
        /\ env["group_samples"] = env["uid"]
        /\ \E k \in 1..Len(log.lines) : log.lines[k] = "group source: all"
        /\ (\E i \in DesignRowIds : InMatrix(env["uid"][i])) =>
               /\ pc \in {"write", "done"}
               /\ exc = NoExc
        /\ pc = "done" =>
               {output_file.rows[k].sample : k \in 1..Len(output_file.rows)}
                   = {env["uid"][i] : i \in {j \in DesignRowIds : InMatrix(env["uid"][j])}}

\* C16 witness: the design has both grouping columns, neither holds the
\* name, and a table for two samples has been written
C16_Witness ==
    /\ NameUnmatched /\ pc = "done"
    /\ {"scaling_group", "consensus_group"} \subseteq design_file.columns
    /\ Len(output_file.rows) = 2
    /\ output_file.rows[1].sample # output_file.rows[2].sample

\* a failed run: the error is in the log before it is re-raised, and there
\* is no output file; an output file exists only after a run without error
FailureIsLogged ==
    /\ pc = "except" => (exc # NoExc /\ ~output_file.exists)
    /\ pc = "raised" =>
            /\ exc # NoExc
            /\ log.exists /\ log.lines # <<>>
            /\ log.lines[Len(log.lines)] = "ERROR: " \o exc
            /\ ~output_file.exists
    /\ output_file.exists => (pc = "done" /\ exc = NoExc)

\* the output file is written by the last step of the run only
OutputWrittenLast ==
    output_file' # output_file => (pc = "write" /\ pc' = "done" /\ exc = NoExc)

\* C24: whenever the run fails (missing input, underivable uid, no sample
\* of the group in the matrix) the error message is in the log file when
\* the error is re-raised and the output file is not written; the output
\* file is written only by the last step of a run without error.
C24_ErrorLoggedThenRaised ==
    []FailureIsLogged /\ [][OutputWrittenLast]_vars

\* C24 witness: the uid cannot be derived; the run logged two records, then
\* the error, and re-raised it
C24_Witness ==
    /\ pc = "raised"
    /\ counts_file.exists /\ design_file.exists /\ ~UidDerivable(design_file)
    /\ log.lines = <<"calculating", "library sizes", "ERROR: " \o exc>>
    /\ ~output_file.exists

(***************************************************************************)
(* Properties of the merged-group CSAW factor (checked under SpecMerged)   *)
(***************************************************************************)
IsMergedCall == call.fn = "get_scaling_factor_for_merged_group"

GroupList == sample_group.samples

HasRow(s) == \E k \in 1..Len(output_file.rows) : output_file.rows[k].sample = s

\* the factor of the first row of the table that names the sample
TableFactor(s) ==
    LET k == CHOOSE i \in 1..Len(output_file.rows) :
                 /\ output_file.rows[i].sample = s
                 /\ \A j \in 1..(i - 1) : output_file.rows[j].sample # s
    IN  output_file.rows[k].scale_factor

GroupTotal == SetSum(Range(GroupList), [s \in Range(GroupList) |-> LibSize(s)])

\* the table holds s_i = mean(L) / L_i for exactly the group's samples, all L_i > 0
TableIsGroupMeanTable ==
    /\ sample_group.found /\ output_file.exists
    /\ Len(GroupList) >= 1
    /\ Len(output_file.rows) = Len(GroupList)
    /\ {output_file.rows[k].sample : k \in 1..Len(output_file.rows)} = Range(GroupList)
    /\ \A s \in Range(GroupList) :
        /\ InMatrix(s) /\ LibSize(s) > 0
        /\ IsFinite(TableFactor(s))
        /\ TableFactor(s)[1] * Len(GroupList) * LibSize(s) = TableFactor(s)[2] * GroupTotal

FoundSamples == {s \in Range(GroupList) : HasRow(s)}

FoundMean ==
    LET found == SelectSeq(GroupList, HasRow)
    IN  FDiv(FSum([k \in 1..Len(found) |-> TableFactor(found[k])]), FInt(Len(found)))

PositiveFactor(f) == IsFinite(f) /\ f[1] > 0

\* C3: with at least two samples of positive factor, the merged factor is
\* smaller than every per-sample factor and than their arithmetic mean.
C3_MergedFactorBelowEveryFactor ==
    (/\ IsMergedCall /\ sample_group.found /\ output_file.exists
     /\ Cardinality({s \in FoundSamples : PositiveFactor(TableFactor(s))}) >= 2) =>
        /\ call.ret.ok
        /\ \A s \in FoundSamples : FLess(call.ret.value, TableFactor(s))
        /\ FLess(call.ret.value, FoundMean)

\* C3 witness: two samples of different positive factors
C3_Witness ==
    /\ IsMergedCall /\ sample_group.found /\ output_file.exists
    /\ Len(GroupList) >= 2
    /\ HasRow(GroupList[1]) /\ HasRow(GroupList[2])
    /\ PositiveFactor(TableFactor(GroupList[1]))
    /\ PositiveFactor(TableFactor(GroupList[2]))
    /\ TableFactor(GroupList[1]) # TableFactor(GroupList[2])
    /\ call.ret.ok

(***************************************************************************)
(* Properties of the spike-in look-ups (checked under SpecSpikein)         *)
(***************************************************************************)
IsSpikeinCall == call.fn = "get_norm_factor_spikein"
IsSpikeinMergedCall == call.fn = "get_norm_factor_spikein_for_merged_group"

\* the returned factor with the negative flag undone
Magnitude == IF call.negative THEN <<-call.ret.value[1], call.ret.value[2]>> ELSE call.ret.value

TotalSpikein ==
    SetSum(Range(GroupList), [s \in Range(GroupList) |-> stats_files[s].spikein_reads])

\* C4: orlando returns 1e6 / (sum of spikein_reads over the group's samples),
\* the factor of one sample holding that sum, whatever the JSON file stores.
C4_OrlandoPooled ==
    (IsSpikeinMergedCall /\ method = "orlando" /\ call.ret.ok /\ TotalSpikein > 0) =>
        /\ IsFinite(Magnitude)
        /\ Magnitude[1] * TotalSpikein = Magnitude[2] * 1000000
        /\ call.ret = get_norm_factor_spikein_for_merged_group(
                          Group(<<"merged">>), "orlando", call.negative, norm_factors,
                          [s \in {"merged"} |-> [exists |-> TRUE, spikein_reads |-> TotalSpikein]],
                          norm_table)
        /\ \A json \in JsonFiles :
               call.ret = get_norm_factor_spikein_for_merged_group(
                              sample_group, method, call.negative, json, stats_files, norm_table)

\* C4 witness: three samples with reads, and a JSON file that stores factors
C4_Witness ==
    /\ IsSpikeinMergedCall /\ method = "orlando" /\ call.ret.ok
    /\ Len(GroupList) = 3
    /\ TotalSpikein = 3
    /\ DOMAIN norm_factors.data = JsonKeys
    /\ ~call.negative

TableRowIds == 1..Len(norm_table.rows)
GroupRowIds == {k \in TableRowIds : norm_table.rows[k].sample \in Range(GroupList)}
GroupColumnSum(col) == SetSum(GroupRowIds, [k \in GroupRowIds |-> norm_table.rows[k][col]])

\* C5: with_input returns sum(S_ctrl) * 1e7 / (sum(S_ip) * sum(R_ctrl)), the
\* sums taken over the table rows of the group's samples only.
C5_WithInputPooled ==
    (/\ IsSpikeinMergedCall /\ method = "with_input" /\ call.ret.ok
     /\ GroupColumnSum("spikein_reads_ip") > 0
     /\ GroupColumnSum("reference_reads_control") > 0) =>
        /\ IsFinite(Magnitude)
        /\ Magnitude[1] * GroupColumnSum("spikein_reads_ip")
                        * GroupColumnSum("reference_reads_control")
               = Magnitude[2] * GroupColumnSum("spikein_reads_control") * 10000000

\* C5 witness: two rows of the group and one row of another sample, all with reads
C5_Witness ==
    /\ IsSpikeinMergedCall /\ method = "with_input" /\ call.ret.ok
    /\ Cardinality(GroupRowIds) = 2
    /\ Len(norm_table.rows) = 3
    /\ \A k \in TableRowIds :
        /\ norm_table.rows[k].spikein_reads_ip = 1
        /\ norm_table.rows[k].spikein_reads_control = 1
        /\ norm_table.rows[k].reference_reads_control = 1
    /\ call.ret = Ok(<<5000000, 1>>)

\* C6: every other method returns the arithmetic mean of the factors stored
\* for the group's samples.
C6_MeanOfStoredFactors ==
    (/\ IsSpikeinMergedCall /\ method \notin {"orlando", "with_input"} /\ call.ret.ok
     /\ Len(GroupList) >= 1
     /\ Range(GroupList) \subseteq DOMAIN norm_factors.data) =>
        FMul(Magnitude, FInt(Len(GroupList)))
            = FSum([k \in 1..Len(GroupList) |-> norm_factors.data[GroupList[k]]])

\* C6 witness: deseq2 over two samples with stored factors 1/2 and 3
C6_Witness ==
    /\ IsSpikeinMergedCall /\ method = "deseq2"
    /\ sample_group = Group(<<"a_x", "b">>)
    /\ norm_factors.exists
    /\ DOMAIN norm_factors.data = JsonKeys
    /\ norm_factors.data["a_x"] = <<1, 2>>
    /\ norm_factors.data["b"] = <<3, 1>>
    /\ call.ret = Ok(<<7, 4>>)

\* the same call with the other value of the negative flag
Mirrored ==
    IF IsSpikeinCall
    THEN get_norm_factor_spikein(call.sample, ~call.negative, norm_factors)
    ELSE get_norm_factor_spikein_for_merged_group(
             sample_group, method, ~call.negative, norm_factors, stats_files, norm_table)

\* C7: whenever a spike-in look-up succeeds, the same look-up with the other
\* value of the negative flag succeeds with exactly the negated factor.
C7_NegativeIsNegation ==
    ((IsSpikeinCall \/ IsSpikeinMergedCall) /\ call.ret.ok) =>
        /\ Mirrored.ok
        /\ Mirrored.value[1] = -call.ret.value[1]
        /\ Mirrored.value[2] = call.ret.value[2]

\* C7 witness: a negative look-up of a sample that the table does not hold
C7_Witness ==
    /\ IsSpikeinCall /\ call.negative
    /\ norm_factors.exists
    /\ call.sample \notin DOMAIN norm_factors.data
    /\ call.ret = Ok(<<-1, 1>>)

\* the spike-in look-up for a merged group found its group and its inputs
AllStatsExist == \A s \in Range(GroupList) : stats_files[s].exists

SpikeinInputsRead ==
    /\ IsSpikeinMergedCall /\ sample_group.found /\ norm_factors.exists
    /\ method = "orlando" => AllStatsExist
    /\ method = "with_input" => norm_table.exists

\* the pooled count the method divides by is zero
ZeroDivisor ==
    \/ method = "orlando" /\ TotalSpikein = 0
    \/ /\ method = "with_input"
       /\ \/ GroupColumnSum("spikein_reads_ip") = 0
          \/ GroupColumnSum("reference_reads_control") = 0

\* C13 (as claimed): a pooled spike-in or reference read count of zero that
\* is needed as a divisor makes the look-up fail; no factor is returned.
C13_ZeroDivisorIsFatal ==
    (SpikeinInputsRead /\ ZeroDivisor) => ~call.ret.ok

\* the merged-group CSAW look-up found its group and its table
MergedInputsRead == IsMergedCall /\ sample_group.found /\ output_file.exists

\* C14, CSAW part: the look-up returns a finite factor, and 1.0 when no
\* sample of the group has a row in the table
MergedLookupGuarded ==
    MergedInputsRead =>
        /\ call.ret.ok
        /\ IsFinite(call.ret.value)
        /\ (\A s \in Range(GroupList) : ~HasRow(s)) => call.ret.value = FOne

\* C14, spike-in part: the look-up returns a finite factor, of magnitude 1.0
\* when the group has no sample or the pooled divisor is zero
SpikeinLookupGuarded ==
    SpikeinInputsRead =>
        /\ call.ret.ok
        /\ IsFinite(call.ret.value)
        /\ (Len(GroupList) = 0 \/ ZeroDivisor) => Magnitude = FOne

\* C14 (as claimed): for every method a merged-group computation returns
\* 1.0 (negated on request) when its group has no resolvable sample or its
\* divisor would be zero, and never returns an infinite or NaN factor nor
\* fails with a division by zero.
C14_MergedComputationsAreGuarded ==
    MergedLookupGuarded /\ SpikeinLookupGuarded

\* C15 (as claimed): when the group is found but none of its samples has
\* usable data (no member has a row in the table read, or the group has no
\* member at all), the look-up reports an error instead of returning a factor.
C15_ZeroSamplesIsAnError ==
    /\ (MergedInputsRead /\ \A s \in Range(GroupList) : ~HasRow(s)) => ~call.ret.ok
    /\ (SpikeinInputsRead /\ Len(GroupList) = 0) => ~call.ret.ok
    /\ (SpikeinInputsRead /\ method = "with_input" /\ GroupRowIds = {}) => ~call.ret.ok

\* C17: get_norm_factor_spikein returns the factor stored for the sample, or
\* 1.0 when the table has no such key, negated when negative is set; it
\* fails only when the table cannot be read.
C17_StoredFactorOrDefault ==
    (IsSpikeinCall /\ norm_factors.exists) =>
        /\ call.ret.ok
        /\ Magnitude = IF call.sample \in DOMAIN norm_factors.data
                       THEN norm_factors.data[call.sample]
                       ELSE FOne
        /\ call.ret.value[1] * (IF call.negative THEN -1 ELSE 1) > 0

\* C17 witness: the table stores factors for other samples only
C17_Witness ==
    /\ IsSpikeinCall /\ ~call.negative
    /\ norm_factors.exists
    /\ DOMAIN norm_factors.data = JsonKeys
    /\ call.sample = "b_x"
    /\ call.ret = Ok(FOne)

\* the factor the claim counts for a member: its stored factor, or 1.0
FactorOrOne(src) == IF HasRow(src) THEN TableFactor(src) ELSE FOne

\* C18, CSAW part: the harmonic combination runs over every member of the
\* group, a member without a row in the table counting as 1.0
MissingMemberHarmonic ==
    (/\ MergedInputsRead /\ Len(GroupList) >= 1
     /\ \A src \in Range(GroupList) : HasRow(src) => PositiveFactor(TableFactor(src))) =>
        /\ call.ret.ok
        /\ call.ret.value =
               FDiv(FOne, FSum([k \in 1..Len(GroupList) |->
                                   FDiv(FOne, FactorOrOne(GroupList[k]))]))

\* C18, spike-in part: the mean runs over every member of the group, a
\* member that is not a key of the table counting as 1.0, and a member
\* without a row in the with_input table does not make the look-up fail
MissingMemberSpikein ==
    /\ (SpikeinInputsRead /\ method = "with_input") => call.ret.ok
    /\ (SpikeinInputsRead /\ method \notin {"orlando", "with_input"} /\ Len(GroupList) >= 1) =>
            /\ call.ret.ok
            /\ FMul(Magnitude, FInt(Len(GroupList))) =
                   FSum([k \in 1..Len(GroupList) |->
                            IF GroupList[k] \in DOMAIN norm_factors.data
                            THEN norm_factors.data[GroupList[k]] ELSE FOne])

\* C18 (as claimed): in every merged-group computation a member absent from
\* the table does not make the computation fail and is counted with the
\* factor 1.0, while the other members contribute their stored values.
C18_MissingMemberCountsAsOne ==
    MissingMemberHarmonic /\ MissingMemberSpikein

\* C19 (as claimed): a merged-group look-up that returns the arithmetic
\* mean of stored factors (deseq2, edgeR) has emitted a log record.
C19_ApproximationIsLogged ==
    (SpikeinInputsRead /\ method \in {"deseq2", "edger"} /\ call.ret.ok) =>
        call.records # <<>>

\* C20 (as claimed): every factor a look-up returns is strictly positive,
\* or strictly negative when negative is requested, and every factor the
\* CSAW step writes is strictly positive.
C20_FactorsAreStrictlySigned ==
    /\ ((IsSpikeinCall \/ IsSpikeinMergedCall) /\ call.ret.ok) =>
            /\ ~IsNaN(call.ret.value)
            /\ IF call.negative THEN call.ret.value[1] < 0 ELSE call.ret.value[1] > 0
    /\ ((IsMergedCall \/ call.fn = "get_scaling_factor") /\ call.ret.ok) =>
            /\ ~IsNaN(call.ret.value)
            /\ call.ret.value[1] > 0
    /\ output_file.exists =>
            \A k \in 1..Len(output_file.rows) :
                /\ ~IsNaN(output_file.rows[k].scale_factor)
                /\ output_file.rows[k].scale_factor[1] > 0

(***************************************************************************)
(* Properties of all computations (checked under SpecAll)                  *)
(***************************************************************************)
IsScalingCall == call.fn = "get_scaling_factor"

FileNotFound == Raise("FileNotFoundError")

\* C21: a computation whose count matrix, design file, scaling-factor TSV,
\* normalisation-factor JSON, with_input table or spike-in stats file (of a
\* sample of the group) is missing fails: the CSAW step raises and writes
\* no output table, a look-up raises and returns no factor.
C21_MissingInputFails ==
    /\ (Computed /\ (~counts_file.exists \/ ~design_file.exists)) =>
            /\ pc \in {"except", "raised"}
            /\ exc = "FileNotFoundError"
            /\ ~output_file.exists
    /\ ((IsMergedCall \/ IsScalingCall) /\ ~output_file.exists) => ~call.ret.ok
    /\ (IsMergedCall /\ sample_group.found /\ ~output_file.exists) => call.ret = FileNotFound
    /\ (IsSpikeinCall /\ ~norm_factors.exists) => call.ret = FileNotFound
    /\ (IsSpikeinMergedCall /\ ~norm_factors.exists) => ~call.ret.ok
    /\ (IsSpikeinMergedCall /\ sample_group.found /\ method = "orlando" /\ ~AllStatsExist) =>
            call.ret = FileNotFound
    /\ (IsSpikeinMergedCall /\ sample_group.found /\ method = "with_input" /\ ~norm_table.exists) =>
            call.ret = FileNotFound

\* C21 witness: orlando over two samples, the JSON file and the first stats
\* file are there, the second stats file is missing
C21_Witness ==
    /\ IsSpikeinMergedCall /\ method = "orlando"
    /\ norm_factors.exists
    /\ sample_group = Group(<<"a_x", "b">>)
    /\ stats_files["a_x"].exists /\ ~stats_files["b"].exists
    /\ call.ret = FileNotFound

(***************************************************************************)
(* Properties of repeated runs (checked under SpecRerun)                   *)
(***************************************************************************)
\* C22: when a run of the CSAW step has ended, the output file is the same
\* (rows, order and values, or absent) as each earlier run on the same
\* inputs left it, although the later run started with that file on disk.
C22_RerunWritesSameTable ==
    pc \in {"done", "raised"} =>
        \A r \in 1..Len(previous) : output_file = previous[r]

\* C22 witness: the second run has written a table of two different factors
\* over the table the first run left
C22_Witness ==
    /\ pc = "done"
    /\ Len(previous) = 1
    /\ previous[1].exists
    /\ Len(output_file.rows) = 2
    /\ output_file.rows[1].scale_factor # output_file.rows[2].scale_factor

(***************************************************************************)
(* Properties of concurrent steps (checked under SpecConcurrent)           *)
(***************************************************************************)
\* the output file a CSAW step for the group leaves when it runs alone
AloneResult(grp) ==
    LET ns == Namespace(counts_file, design_file, grp)
    IN  IF TryError(counts_file, design_file, ns) = NoExc
        THEN [exists |-> TRUE, rows |-> result(ns["scale_factors"])]
        ELSE NoFile

\* the log file a CSAW step for the group leaves when it runs alone
AloneLog(grp) ==
    LET ns == Namespace(counts_file, design_file, grp)
        e == TryError(counts_file, design_file, ns)
    IN  [exists |-> TRUE,
         lines |-> TryLog(counts_file, design_file, grp, ns)
                   \o <<IF e = NoExc THEN "written" ELSE "ERROR: " \o e>>]

SameAsAlone ==
    /\ pc \in {"done", "raised"} =>
            /\ output_file = AloneResult(group)
            /\ log = AloneLog(group)
    /\ other.pc \in {"done", "raised"} =>
            /\ other.output_file = AloneResult(other.group)
            /\ other.log = AloneLog(other.group)

\* a step leaves the inputs and the other step's files as they are
WritesOwnFilesOnly ==
    /\ UNCHANGED <<counts_file, design_file, norm_factors, stats_files, norm_table>>
    /\ other' # other => UNCHANGED <<output_file, log>>
    /\ pc' # pc => other' = other
    /\ call' # call => UNCHANGED <<output_file, log, other>>

\* C23: in every interleaving of two CSAW steps of different groups each
\* step ends with the output file and the log file it leaves when run
\* alone, and no step or look-up ever changes a count, design, stats or
\* normalisation-factor input or a file of the other step.
C23_ConcurrentStepsDoNotInterfere ==
    []SameAsAlone /\ [][WritesOwnFilesOnly]_vars

\* C23 witness: the other step wrote its table between the first step's
\* computation and the first step's write, and the two tables differ
C23_Witness ==
    /\ pc = "write" /\ other.pc = "done"
    /\ other.output_file.exists
    /\ other.output_file.rows # result(env.scale_factors)
    /\ Len(other.output_file.rows) >= 1
    /\ Len(env.scale_factors) >= 1

(***************************************************************************)
(* Properties of the merged factor in binary64 (checked under SpecFloat)   *)
(***************************************************************************)
\* The merged factor was asked for the consensus group made of exactly the
\* samples of the table, which the CSAW computation wrote from positive sizes
MergedOverWholeTable ==
    /\ call.fn = "get_scaling_factor_for_merged_group"
    /\ pc = "done"
    /\ output_file.exists
    /\ sample_group.found
    /\ sample_group.samples = [k \in 1..Len(output_file.rows) |-> output_file.rows[k].sample]

\* 1.0 / n in binary64
OneOverN == F64Div(F64One, F64FromInt(Len(output_file.rows)))

\* units in the last place allowed between the result and 1/n: one for each
\* rounded operation on the way of one factor, at most
MaxUlps == Len(FloatSamples) + 1

WDistance(a, b) == IF WLeq(a, b) THEN WSub(b, a) ELSE WSub(a, b)

\* a and b are at most u units in the last place apart (units of the smaller one)
WithinUlps(a, b, u) ==
    IF a.e = b.e THEN WLeq(WDistance(a.m, b.m), <<0, u>>)
    ELSE IF a.e = b.e + 1 THEN WLeq(WSub(WDouble(a.m), b.m), <<0, u>>)
    ELSE IF b.e = a.e + 1 THEN WLeq(WSub(WDouble(b.m), a.m), <<0, u>>)
    ELSE FALSE

\* C28 as stated: on the table computed over exactly the n samples of the
\* group, all of positive library size, the merged factor is exactly 1/n.
C28_MergedFactorIsExactlyOneOverN ==
    MergedOverWholeTable => call.ret = Ok(OneOverN)

\* C28 amended: on such a table the merged factor is 1/n up to the rounding of
\* the binary64 divisions and additions: within MaxUlps units in the last
\* place of 1/n, whatever the library sizes are.
C28_MergedFactorIsOneOverNRounded ==
    MergedOverWholeTable => call.ret.ok /\ WithinUlps(call.ret.value, OneOverN, MaxUlps)

\* library sizes 2 and 7: factors 2.25 and 0.6428571428571429, merged factor
\* 0.5000000000000001, one unit in the last place above 0.5
C28_Witness ==
    /\ MergedOverWholeTable
    /\ Len(env.lib_sizes_group) = 2
    /\ env.lib_sizes_group[1].value = 2
    /\ env.lib_sizes_group[2].value = 7
    /\ call.ret = Ok([m |-> WInc(MinMantissa), e |-> -MantissaBits])

\* The rows of the scaling-factor table whose sample is the requested one
MatchingRows == {k \in 1..Len(output_file.rows) : output_file.rows[k].sample = call.sample}
FirstMatchingRow == CHOOSE k \in MatchingRows : \A m \in MatchingRows : k <= m

IsScalingFactorCall == call.fn = "get_scaling_factor" /\ output_file.exists

\* C29: get_scaling_factor returns the scale_factor of the first row of the
\* table whose sample is the requested one; when no row has that sample it
\* fails with an error and returns no factor, the default 1.0 included.
C29_FirstRowOrError ==
    IsScalingFactorCall =>
        IF MatchingRows = {} THEN ~call.ret.ok
        ELSE call.ret = Ok(output_file.rows[FirstMatchingRow].scale_factor)

\* a sample with two rows of different factors was looked up and the first
\* row's factor came back
C29_Witness ==
    /\ IsScalingFactorCall
    /\ Cardinality(MatchingRows) = 2
    /\ output_file.rows[1].scale_factor # output_file.rows[2].scale_factor
    /\ call.ret = Ok(output_file.rows[1].scale_factor)

\* a sample without a row was looked up in a table that has rows
C29_WitnessMissing ==
    /\ IsScalingFactorCall
    /\ output_file.rows # <<>>
    /\ MatchingRows = {}
    /\ call.ret = Raise("IndexError")

(***************************************************************************)
(* Properties of the command builder (checked under SpecBuilder)           *)
(***************************************************************************)
\* The tokens one add_* call contributes to the command.  add_target
\* contributes to the targets instead; add_show_failed_logs contributes none
\* because the constructor has already put the flag in the command.
CallTokens(c) ==
    CASE c.fn = "add_configfile" -> <<"--configfile", c.args[1]>>
      [] c.fn = "add_config" ->
            <<"--config">> \o [i \in 1..Len(c.args[1]) |->
                                  c.args[1][i][1] \o "=" \o c.args[1][i][2]]
      [] c.fn \in {"add_profile_from_path", "add_profile_with_logging"} ->
            IF c.args[1] = "" THEN <<>> ELSE <<"--profile", c.args[1]>>
      [] c.fn = "add_unlock" -> <<"--unlock">>
      [] c.fn = "add_dry_run" -> <<"--dry-run">>
      [] c.fn = "add_container_support" ->
            IF "apptainer" \in c.args[1] THEN <<"--use-apptainer">>
            ELSE IF "singularity" \in c.args[1] THEN <<"--use-singularity">>
            ELSE <<>>
      [] c.fn = "add_pass_through_args" ->
            SelectSeq(c.args[1], LAMBDA arg : arg \notin c.args[2])
      [] c.fn = "add_directory" -> <<"--directory", c.args[1]>>
      [] c.fn = "add_default_resources" ->
            IF c.args[1] = <<>> THEN <<>>
            ELSE <<"--default-resources">> \o [i \in 1..Len(c.args[1]) |->
                                  c.args[1][i][1] \o "=" \o c.args[1][i][2]]
      [] c.fn = "add_queue" ->
            IF c.args[1] # "" /\ c.args[2] = "ss"
            THEN <<"--default-resources", "slurm_partition=" \o c.args[1]>>
            ELSE <<>>
      [] c.fn = "add_workflow_args" ->
            IF c.args[1] = <<>> THEN <<>>
            ELSE <<"--config", "workflow_args=" \o JoinWith(c.args[1], " ")>>
      [] OTHER -> <<>>

\* The targets passed to add_target, in call order
TargetsCalled == Flatten([i \in 1..Len(calls) |->
                    IF calls[i].fn = "add_target" THEN <<calls[i].args[1]>> ELSE <<>>])

\* The tokens of all other calls, in call order
OtherTokensCalled == Flatten([i \in 1..Len(calls) |-> CallTokens(calls[i])])

CoresToken == IF builder.cores = 1 THEN "1" ELSE "12"

BuildJustReturned == calls # <<>> /\ Last(calls).fn = "build"

BuildReturnsCommandThenTargets ==
    BuildJustReturned =>
        LET ret == call.ret
            nt  == Len(TargetsCalled)
        IN  /\ Len(ret) >= 6 + nt
            /\ SubSeq(ret, 1, 6) = <<"snakemake", "--snakefile", "Snakefile",
                                     "--show-failed-logs", "-c", CoresToken>>
            /\ SubSeq(ret, 7, Len(ret) - nt) = OtherTokensCalled
            /\ SubSeq(ret, Len(ret) - nt + 1, Len(ret)) = TargetsCalled

BuildLeavesBuilderUnchanged ==
    (calls' # calls /\ Last(calls').fn = "build") => builder' = builder

\* C25: build() returns the six base tokens, then the tokens of every earlier
\* add_* call in call order, then every target passed to add_target in call
\* order, however the calls were interleaved; build() leaves the builder as it
\* was, so a second build() returns an equal list.
C25_BuildReturnsCommandThenTargets ==
    []BuildReturnsCommandThenTargets /\ [][BuildLeavesBuilderUnchanged]_vars

\* a target was added first, a flag after it, and build() put the target last
C25_Witness ==
    /\ Len(calls) = 3
    /\ calls[1].fn = "add_target"
    /\ calls[2].fn = "add_dry_run"
    /\ calls[3].fn = "build"
    /\ call.ret = <<"snakemake", "--snakefile", "Snakefile", "--show-failed-logs",
                    "-c", "12", "--dry-run", "all">>

(***************************************************************************)
(* Properties of the container version cache (checked under SpecVersions)  *)
(***************************************************************************)
\* The i-th call is a get_container_versions that went past its argument checks
Completed(i) ==
    /\ calls[i].fn = "get_container_versions"
    /\ calls[i].container_uri # ""
    /\ calls[i].apptainer_cmd # ""

NoClearBetween(i, j) == \A k \in (i + 1)..(j - 1) : calls[k].fn # "clear_version_cache"

\* an earlier completed call for the same URI, with no clear since
Answered(j) ==
    \E i \in 1..(j - 1) :
        /\ Completed(i)
        /\ calls[i].container_uri = calls[j].container_uri
        /\ NoClearBetween(i, j)

CachedAnswerRepeats ==
    \A i, j \in 1..Len(calls) :
        (/\ i < j
         /\ Completed(i)
         /\ Completed(j)
         /\ calls[i].container_uri = calls[j].container_uri
         /\ NoClearBetween(i, j))
        => calls[j].ret = calls[i].ret /\ calls[j].ran = <<>>

FixedOrder ==
    << [type |-> "conda-meta", paths |-> <<"/opt/conda/conda-meta">>],
       [type |-> "conda-meta", paths |-> <<"/usr/local/conda-meta">>],
       [type |-> "pip-list", paths |-> <<>>],
       [type |-> "version-command", paths |-> <<>>] >>

Yields(i, k) == calls[i].outcomes[k].found /\ calls[i].outcomes[k].versions # {}

MissRunsInOrder ==
    \A i \in 1..Len(calls) :
        (Completed(i) /\ ~Answered(i)) =>
            LET n == Len(calls[i].ran)
            IN  /\ n >= 1
                /\ calls[i].ran = SubSeq(FixedOrder, 1, n)
                /\ \A k \in 1..(n - 1) : ~Yields(i, k)
                /\ n < Len(FixedOrder) => Yields(i, n)
                /\ calls[i].ret = IF Yields(i, n) THEN calls[i].outcomes[n].versions ELSE {}

IsCoresCall == call.fn = "extract_cores_from_options"

\* the flag is the last token and appears nowhere else, and the other
\* spelling is not in the list
LoneTrailingFlag(flag) ==
    /\ IsCoresCall
    /\ call.options # <<>>
    /\ Last(call.options) = flag
    /\ {"-c", "--cores"} \cap Range(Front(call.options)) = {}

DefaultsToOneCore ==
    /\ call.ret.ok
    /\ call.ret.value.cores = 1
    /\ call.ret.value.options = Front(call.options)

\* C27: when a cores flag, -c or --cores, is the last token of the option list
\* with no value after it, extract_cores_from_options does not raise: it returns
\* cores = 1 and the option list without that flag, for both spellings.
C27_TrailingCoresFlagDefaultsToOne ==
    \A flag \in {"-c", "--cores"} : LoneTrailingFlag(flag) => DefaultsToOneCore

(***************************************************************************)
(* Properties of the inputs of the CSAW step (checked under Spec)          *)
(***************************************************************************)
\* the design rows the group resolves to: those naming it in the column it
\* resolves through, or every row when it is in no column
OwnRows(design, grp) ==
    LET src == GroupSource(design, grp)
    IN  IF src = "all" THEN design.rows
        ELSE SelectSeq(design.rows, LAMBDA r : r[src] = grp)

\* the design with the rows of the group and no other
OwnDesign == [design_file EXCEPT !.rows = OwnRows(design_file, group)]

\* the count matrix with the metadata columns and the columns of the samples
\* of the group, and no other
OwnCounts ==
    LET samples == Range(Uid(OwnDesign))
        kept    == SelectSeq([j \in 1..Len(counts_file.columns) |-> j],
                             LAMBDA j : \/ PathStr(counts_file.columns[j]) \in meta_cols
                                        \/ Stem(counts_file.columns[j]) \in samples)
    IN  [exists  |-> TRUE,
         columns |-> [k \in 1..Len(kept) |-> counts_file.columns[kept[k]]],
         data    |-> [b \in 1..Len(counts_file.data) |->
                         [k \in 1..Len(kept) |-> counts_file.data[b][kept[k]]]]]

\* the step has written the table of its group
TableWritten == pc = "done" /\ output_file.exists

\* C30: the table written for a group depends only on the counts of the group's
\* own samples and on the group's design rows: the run on the inputs stripped of
\* every other sample column and every other design row resolves the group
\* through the same column and writes the same table, so any two runs that
\* agree on those columns and rows write the same table.
C30_TableDependsOnOwnGroupOnly ==
    TableWritten =>
        /\ GroupSource(OwnDesign, group) = GroupSource(design_file, group)
        /\ LET alone == Namespace(OwnCounts, OwnDesign, group)
           IN  /\ TryError(OwnCounts, OwnDesign, alone) = NoExc
               /\ output_file.rows = result(alone["scale_factors"])

\* a table was written for a group of one sample while the design holds a row
\* of another group and the matrix non-zero counts of samples outside the group
C30_Witness ==
    /\ TableWritten
    /\ GroupSource(design_file, group) = "scaling_group"
    /\ Len(OwnRows(design_file, group)) < Len(design_file.rows)
    /\ Len(OwnCounts.columns) < Len(counts_file.columns)
    /\ \E e \in Range(env["lib_sizes"]) :
           e.index \notin Range(env["group_samples"]) /\ e.value > 0
    /\ \E i \in 1..Len(design_file.rows) :
           /\ design_file.rows[i]["scaling_group"] # group
           /\ Uid(design_file)[i] \in Index(env["lib_sizes"])
    /\ Len(output_file.rows) = 1

====
